---- MODULE Spec2Model ----
(***************************************************************************)
(* Model of notion_db_duplicate.py: the upload of a dump into a            *)
(* destination parent page (create-or-skip, the three deferred phases, the *)
(* record pass), the identifier mapping store id_mapping.json, and the     *)
(* repair of duplicate relation properties.                                *)
(*                                                                         *)
(* Python dicts are modelled as sequences of entries in insertion order   *)
(* (property tables) or as functions (the id_mapping document, whose key   *)
(* set changes: setdefault adds "skipped_databases").  A falsy value       *)
(* (None, "", [], {}) is modelled by "" or <<>>.                           *)
(***************************************************************************)
EXTENDS Integers, Sequences, FiniteSets, TLC

\* ------------------------------------------------------------------ bounds
\* upload/repair commands run one after the other against one dump directory
MaxRuns == 2
\* remote calls that fail (API error or transport error) in one behaviour
MaxFaults == 1
\* reverse relation properties the destination generates in one behaviour
MaxReverse == 1

\* ------------------------------------------------------- program constants
DUMP_FORMAT_VERSION == 2
MAX_SELECT_OPTIONS == 100
MAX_RETRIES == 5
ZERO_DB_ID == "00000000-0000-0000-0000-000000000000"

\* ---------------------------------------------------------------- helpers
Range(s) == {s[i] : i \in 1..Len(s)}

RECURSIVE SeqFilterIdx(_, _, _)
\* the subsequence of s whose elements are in the set keep (order kept)
SeqFilterIdx(s, keep, i) ==
    IF i > Len(s) THEN <<>>
    ELSE IF s[i] \in keep THEN <<s[i]>> \o SeqFilterIdx(s, keep, i + 1)
    ELSE SeqFilterIdx(s, keep, i + 1)

SeqFilter(s, keep) == SeqFilterIdx(s, keep, 1)

\* dict[name] = payload on an insertion-ordered dict of [name, payload] entries:
\* an existing key keeps its position and gets the new value
DictSet(d, name, payload) ==
    IF \E i \in 1..Len(d) : d[i].name = name
    THEN [i \in 1..Len(d) |-> IF d[i].name = name
                              THEN [name |-> name, payload |-> payload]
                              ELSE d[i]]
    ELSE Append(d, [name |-> name, payload |-> payload])

DictKeys(d) == {d[i].name : i \in 1..Len(d)}

\* dict[name]
DictGet(d, name) == d[CHOOSE i \in 1..Len(d) : d[i].name = name]

\* ---------------------------------------------------- source property kinds
EmptyCfg == <<>>

\* a property of a source schema as the API returns it; an absent member is ""
SrcProp(name, id, type) ==
    [name |-> name, id |-> id, type |-> type, database_id |-> "",
     rel_type |-> "", relation_property_name |-> "", rollup_property_name |-> "",
     function |-> "", expression |-> <<>>, format |-> "", options |-> <<>>]

RelationProp(name, id, target, relType) ==
    [SrcProp(name, id, "relation") EXCEPT !.database_id = target, !.rel_type = relType]

RollupProp(name, id, rel, rp, fn) ==
    [SrcProp(name, id, "rollup") EXCEPT !.relation_property_name = rel,
                                        !.rollup_property_name = rp,
                                        !.function = fn]

SelectProp(name, id, type, options) ==
    [SrcProp(name, id, type) EXCEPT !.options = options]

NumberProp(name, id, format) ==
    [SrcProp(name, id, "number") EXCEPT !.format = format]

FormulaProp(name, id, expr) ==
    [SrcProp(name, id, "formula") EXCEPT !.expression = expr]

\* formula expressions are sequences of pieces: literal text, or a reference
\* token {{notion:block_property:PROP_ID:DB_ID:PAGE_ID}}
Text(s) == [k |-> "text", s |-> s, pid |-> "", db |-> ""]
Tok(pid, db) == [k |-> "tok", s |-> "", pid |-> pid, db |-> db]
PropRef(name) == [k |-> "prop", s |-> name, pid |-> "", db |-> ""]

\* urllib.parse.unquote on the property ids that occur in the dumps
Unquote(id) ==
    CASE id = "t%3At" -> "t:t"
      [] id = "r%3Ar" -> "r:r"
      [] id = "t%253At" -> "t%3At"
      [] OTHER -> id

\* the ids the destination workspace hands out, in order
DestIdPool ==
    <<"d-1", "d-2", "d-3", "d-4", "d-5", "d-6", "d-7", "d-8", "d-9", "d-10",
      "d-11", "d-12", "d-13", "d-14", "d-15", "d-16", "d-17", "d-18", "d-19", "d-20">>

\* str.replace("-", "") on the ids that occur
NoHyphen(id) ==
    CASE id = ZERO_DB_ID -> "00000000000000000000000000000000"
      [] id = "a-1" -> "a1"
      [] id = "b-2" -> "b2"
      [] id = "x-9" -> "x9"
      [] id = "z-0" -> "z0"
      [] \E i \in 1..Len(DestIdPool) : id = DestIdPool[i] ->
            "d" \o ToString(CHOOSE i \in 1..Len(DestIdPool) : id = DestIdPool[i])
      [] OTHER -> id

\* str.replace('"', '\\"') on the property names that occur
EscapeQuotes(name) ==
    IF name = "Q\"uote" THEN "Q\\\"uote" ELSE name

\* ------------------------------------------------------------------ titles
\* a title is the sequence of the plain texts of its rich-text items
get_database_title_plain(db) ==
    IF Len(db.title) > 0 THEN db.title[1] ELSE ""

sanitize_database_title(source_db) ==
    IF Len(source_db.title) > 0 THEN source_db.title
    ELSE <<"Duplicated " \o source_db.id>>

\* ------------------------------------------- source -> destination schema map
\* dict source id -> destination id, in insertion order
MapHas(m, src) == \E i \in 1..Len(m) : m[i].source_id = src

MapGet(m, src) == m[CHOOSE i \in 1..Len(m) : m[i].source_id = src].dest_id

MapGetOr_placeholder(m, src, default) == default

\* dict.get(src, default)
MapGetOr(m, src, default) == IF MapHas(m, src) THEN MapGet(m, src) ELSE default

MapSet(m, src, dst) ==
    IF MapHas(m, src)
    THEN [i \in 1..Len(m) |-> IF m[i].source_id = src
                              THEN [source_id |-> src, dest_id |-> dst]
                              ELSE m[i]]
    ELSE Append(m, [source_id |-> src, dest_id |-> dst])

\* ------------------------------------------------- formula reference rewriter
RECURSIVE IdToNameFrom(_, _)
\* the id_to_name table of a property list: for each property in order,
\* table[unquote(id)] = name, then table[id] = name; later properties win
IdToNameFrom(props, i) ==
    IF i = 0 THEN <<>>
    ELSE LET p == props[i]
             rest == IdToNameFrom(props, i - 1)
         IN IF p.id = "" THEN rest
            ELSE (p.id :> p.name) @@ (Unquote(p.id) :> p.name) @@ rest

IdToName(props) == IdToNameFrom(props, Len(props))

RECURSIVE AllDbIdToNameFrom(_, _)
\* all_db_id_to_name: normalized schema id -> id_to_name table; all_dbs is the
\* sequence of [id, properties] in dict order, later entries win
AllDbIdToNameFrom(all_dbs, i) ==
    IF i = 0 THEN <<>>
    ELSE (NoHyphen(all_dbs[i].id) :> IdToName(all_dbs[i].properties))
         @@ AllDbIdToNameFrom(all_dbs, i - 1)

AllDbIdToName(all_dbs) == AllDbIdToNameFrom(all_dbs, Len(all_dbs))

replace_uuid_current_only(tok, id_to_name, all_db_id_to_name) ==
    IF NoHyphen(tok.db) = NoHyphen(ZERO_DB_ID) /\ tok.pid \in DOMAIN id_to_name
    THEN PropRef(EscapeQuotes(id_to_name[tok.pid]))
    ELSE tok

replace_uuid_owner_first(tok, id_to_name, all_db_id_to_name) ==
    IF tok.pid \in DOMAIN id_to_name
    THEN PropRef(EscapeQuotes(id_to_name[tok.pid]))
    ELSE IF NoHyphen(tok.db) \in DOMAIN all_db_id_to_name
            /\ tok.pid \in DOMAIN all_db_id_to_name[NoHyphen(tok.db)]
    THEN PropRef(EscapeQuotes(all_db_id_to_name[NoHyphen(tok.db)][tok.pid]))
    ELSE tok

\* replace_uuid: one reference token against the tables
replace_uuid(tok, id_to_name, all_db_id_to_name) ==
    LET prop_id == tok.pid
        db_id == NoHyphen(tok.db)
        decoded == Unquote(prop_id)
    IN IF db_id = NoHyphen(ZERO_DB_ID)
       THEN IF prop_id \in DOMAIN id_to_name
            THEN PropRef(EscapeQuotes(id_to_name[prop_id]))
            ELSE IF decoded \in DOMAIN id_to_name
            THEN PropRef(EscapeQuotes(id_to_name[decoded]))
            ELSE tok
       ELSE IF db_id \in DOMAIN all_db_id_to_name
            THEN LET db_map == all_db_id_to_name[db_id]
                 IN IF prop_id \in DOMAIN db_map
                    THEN PropRef(EscapeQuotes(db_map[prop_id]))
                    ELSE IF decoded \in DOMAIN db_map
                    THEN PropRef(EscapeQuotes(db_map[decoded]))
                    ELSE tok
            ELSE tok

\* re.sub over the expression: every token piece goes through replace_uuid,
\* every other piece stays; all_dbs = <<>> stands for all_db_properties=None
convert_formula_uuids_to_prop(expression, properties, all_dbs) ==
    LET id_to_name == IdToName(properties)
        all_db_id_to_name == AllDbIdToName(all_dbs)
    IN [i \in 1..Len(expression) |->
          IF expression[i].k = "tok"
          THEN replace_uuid(expression[i], id_to_name, all_db_id_to_name)
          ELSE expression[i]]

\* ---------------------------------------------------- schema property translator
SimpleTypes ==
    {"title", "rich_text", "date", "people", "files", "checkbox", "url", "email",
     "phone_number"}

\* the {name, color} a named option is carried forward as (line 259)
Sanitized(option) ==
    [name |-> option.name,
     color |-> IF option.color = "" THEN "default" ELSE option.color]

HasName(option) == option.name # ""

sanitize_select_options_uncapped(options, max_options) ==
    SelectSeq([i \in 1..Len(options) |-> Sanitized(options[i])], HasName)

\* options[:max_options], minus the options without a name; color defaults
sanitize_select_options(options, max_options) ==
    LET head == SubSeq(options, 1, IF Len(options) < max_options
                                   THEN Len(options) ELSE max_options)
    IN SelectSeq([i \in 1..Len(head) |-> Sanitized(head[i])], HasName)

NoneResult == [ok |-> FALSE, type |-> "", config |-> EmptyCfg, marker |-> ""]

Result(type, config, marker) ==
    [ok |-> TRUE, type |-> type, config |-> config, marker |-> marker]

relation_config_keeping_mode(source_property, source_to_dest_db_map) ==
    IF source_property.rel_type = "dual_property"
    THEN [database_id |-> MapGetOr(source_to_dest_db_map, source_property.database_id,
                                   source_property.database_id),
          dual_property |-> EmptyCfg]
    ELSE [database_id |-> MapGetOr(source_to_dest_db_map, source_property.database_id,
                                   source_property.database_id),
          single_property |-> EmptyCfg]

\* lines 299-303: the relation configuration: the mapped target (the source id
\* when the map has none) and single_property, whatever the source mode
relation_config(source_property, source_to_dest_db_map) ==
    [database_id |-> MapGetOr(source_to_dest_db_map, source_property.database_id,
                              source_property.database_id),
     single_property |-> EmptyCfg]

property_schema_config(source_property, source_to_dest_db_map) ==
    LET t == source_property.type
    IN CASE t = "" -> NoneResult
         [] t \in SimpleTypes -> Result(t, EmptyCfg, "")
         [] t = "number" ->
              Result(t, [format |-> IF source_property.format = "" THEN "number"
                                    ELSE source_property.format], "")
         [] t \in {"select", "multi_select"} ->
              Result(t, [options |-> sanitize_select_options(source_property.options,
                                                             MAX_SELECT_OPTIONS)], "")
         [] t = "status" -> Result(t, EmptyCfg, "")
         [] t = "formula" ->
              IF source_property.expression = <<>> THEN NoneResult
              ELSE Result(t, [expression |-> source_property.expression], "formula")
         [] t = "relation" ->
              IF source_property.database_id = "" THEN NoneResult
              ELSE Result(t, relation_config(source_property, source_to_dest_db_map),
                          "relation")
         [] t = "rollup" ->
              IF \/ source_property.relation_property_name = ""
                 \/ source_property.rollup_property_name = ""
                 \/ source_property.function = ""
              THEN NoneResult
              ELSE Result(t,
                          [relation_property_name |-> source_property.relation_property_name,
                           rollup_property_name |-> source_property.rollup_property_name,
                           function |-> source_property.function],
                          "rollup")
         [] OTHER -> NoneResult

\* the {prop_type: config} payload of a translation result r; the expression
\* of a formula is rewritten first (lines 343-350)
PayloadOf(r, source_properties, all_dbs) ==
    IF r.type = "formula"
    THEN [type |-> r.type,
          config |-> [expression |->
                         convert_formula_uuids_to_prop(r.config.expression,
                                                       source_properties, all_dbs)]]
    ELSE [type |-> r.type, config |-> r.config]

Payload(source_property, source_properties, source_to_dest_db_map, all_dbs) ==
    PayloadOf(property_schema_config(source_property, source_to_dest_db_map),
              source_properties, all_dbs)

IsDeferred(source_property, source_to_dest_db_map, defer_complex) ==
    /\ defer_complex
    /\ property_schema_config(source_property, source_to_dest_db_map).marker
          \in {"formula", "relation", "rollup"}

RECURSIVE TranslatedFrom(_, _, _, _, _, _)
\* the entries of the immediate (want_deferred = FALSE) or deferred
\* (want_deferred = TRUE) dict built by the loop over source_properties
TranslatedFrom(props, i, m, defer_complex, all_dbs, want_deferred) ==
    IF i > Len(props) THEN <<>>
    ELSE LET p == props[i]
             rest == TranslatedFrom(props, i + 1, m, defer_complex, all_dbs, want_deferred)
         IN IF /\ property_schema_config(p, m).ok
               /\ IsDeferred(p, m, defer_complex) = want_deferred
            THEN <<[name |-> p.name, payload |-> Payload(p, props, m, all_dbs)]>> \o rest
            ELSE rest

HasTitle(d) == \E i \in 1..Len(d) : d[i].payload.type = "title"

\* the warnings of the property loop, in order
SkippedWarnings(props, m) ==
    LET dropped == {i \in 1..Len(props) : ~property_schema_config(props[i], m).ok}
    IN SeqFilter([i \in 1..Len(props) |->
                    IF i \in dropped
                    THEN [w |-> "unsupported_property", name |-> props[i].name]
                    ELSE [w |-> "", name |-> ""]],
                 {[w |-> "unsupported_property", name |-> props[i].name] : i \in dropped})

WithTitle_as_translated(imm, def, warns, has_title) ==
    [immediate |-> imm, deferred |-> def, warnings |-> warns]

\* lines 358-365: the fallback title property, and what is returned
WithTitle(imm, def, warns, has_title) ==
    [immediate |-> IF has_title THEN imm
                   ELSE DictSet(imm, "Name", [type |-> "title", config |-> EmptyCfg]),
     deferred |-> def,
     warnings |-> warns \o (IF has_title THEN <<>>
                            ELSE <<[w |-> "no_title", name |-> "Name"]>>)]

BuildFrom(imm, def, warns) == WithTitle(imm, def, warns, HasTitle(imm) \/ HasTitle(def))

build_database_properties(source_properties, source_to_dest_db_map, defer_complex, all_dbs) ==
    BuildFrom(TranslatedFrom(source_properties, 1, source_to_dest_db_map,
                             defer_complex, all_dbs, FALSE),
              TranslatedFrom(source_properties, 1, source_to_dest_db_map,
                             defer_complex, all_dbs, TRUE),
              SkippedWarnings(source_properties, source_to_dest_db_map))

\* the deferred entries of one type, in dict order ("relation" in v, ...)
OfType(deferred, type) ==
    SeqFilter(deferred, {deferred[i] : i \in {j \in 1..Len(deferred) :
                                                deferred[j].payload.type = type}})

\* ------------------------------------------------ dump-time descriptor capture
extract_relation_properties(source_db) ==
    LET props == source_db.properties
        rels == {i \in 1..Len(props) : props[i].type = "relation"}
        all == [i \in 1..Len(props) |->
                  [source_db_id |-> source_db.id,
                   property_name |-> props[i].name,
                   target_db_id |-> props[i].database_id,
                   relation_type |-> IF props[i].rel_type = "" THEN "single_property"
                                     ELSE props[i].rel_type]]
    IN SeqFilter(all, {all[i] : i \in rels})

extract_rollup_properties(source_db) ==
    LET props == source_db.properties
        rolls == {i \in 1..Len(props) : props[i].type = "rollup"}
        all == [i \in 1..Len(props) |->
                  [source_db_id |-> source_db.id,
                   property_name |-> props[i].name,
                   relation_property_name |-> props[i].relation_property_name,
                   rollup_property_name |-> props[i].rollup_property_name,
                   function |-> props[i].function]]
    IN SeqFilter(all, {all[i] : i \in rolls})

extract_formula_properties(source_db) ==
    LET props == source_db.properties
        forms == {i \in 1..Len(props) :
                     props[i].type = "formula" /\ props[i].expression # <<>>}
        all == [i \in 1..Len(props) |->
                  [source_db_id |-> source_db.id,
                   property_name |-> props[i].name,
                   original_expression |-> props[i].expression,
                   expression |-> convert_formula_uuids_to_prop(props[i].expression,
                                                                props, <<>>)]]
    IN SeqFilter(all, {all[i] : i \in forms})

RECURSIVE ExtendAll(_, _, _)
\* list.extend of one descriptor kind over the dumped schemas, in dump order
ExtendAll(recs, i, kind) ==
    IF i > Len(recs) THEN <<>>
    ELSE (CASE kind = "relation" -> extract_relation_properties(recs[i].database)
            [] kind = "rollup" -> extract_rollup_properties(recs[i].database)
            [] OTHER -> extract_formula_properties(recs[i].database))
         \o ExtendAll(recs, i + 1, kind)

\* id_mapping.json as dump_databases_to_files writes it (timestamps are run numbers)
DumpIdMapping(recs) ==
    [created_at |-> 0,
     database_mappings |-> <<>>,
     relation_properties |-> ExtendAll(recs, 1, "relation"),
     rollup_properties |-> ExtendAll(recs, 1, "rollup"),
     formula_properties |-> ExtendAll(recs, 1, "formula")]

\* ------------------------------------------------------------- the dumps
SrcA == "a-1"
SrcB == "b-2"
ExternalDb == "x-9"
ForeignDb == "z-0"

PlainProps ==
    <<SrcProp("Name", "title", "title"),
      SelectProp("Tags", "t%3At", "select",
                 <<[name |-> "open", color |-> "red"], [name |-> "", color |-> ""],
                   [name |-> "done", color |-> ""]>>),
      NumberProp("Cost", "c", "")>>

\* title, a relation (source cardinality dual_property), a rollup over it and a
\* formula over the rollup, a property of the other schema (by its id and by
\* the quoted form of its id), a property of a schema outside the dump and a
\* stale reference; the pattern of line 630 gives a token a property id
\* without a colon
FullProps(target, other) ==
    <<SrcProp("Name", "title", "title"),
      RelationProp("Rel", "r%3Ar", target, "dual_property"),
      RollupProp("Roll", "ro", "Rel", "Name", "count"),
      FormulaProp("F", "f", <<Text("1+"), Tok("ro", ZERO_DB_ID),
                               Tok("t%3At", other), Tok("t%253At", other),
                               Tok("c", ExternalDb), Tok("gone", ZERO_DB_ID),
                               Tok("ro", ExternalDb), Tok("c", ZERO_DB_ID),
                               Tok("f", other)>>)>>

\* two options more than the cap, every other one without a color
ManyOptions ==
    [i \in 1..(MAX_SELECT_OPTIONS + 2) |->
        [name |-> "o" \o ToString(i), color |-> IF i % 2 = 0 THEN "blue" ELSE ""]]

\* no title property, a multi_select with more options than the cap,
\* properties the translator drops, and an original relation whose name has
\* the prefix of the auto-generated ones
OddProps ==
    <<SrcProp("Name", "n", "rich_text"),
      SelectProp("Many", "m", "multi_select", ManyOptions),
      RelationProp("Broken", "br", "", ""),
      RollupProp("BadRoll", "bro", "Rel", "", ""),
      FormulaProp("NoExpr", "fe", <<>>),
      SrcProp("Made", "ct", "created_time"),
      RelationProp("Related to T1", "rt", ExternalDb, "single_property")>>

\* a dumped page: its id and its property values (relation values are the
\* referenced source page ids)
PageProp(name, type, relation) == [name |-> name, type |-> type, relation |-> relation]

PagesOf(props, id, refs) ==
    <<[id |-> id,
       properties |->
          [i \in 1..Len(props) |->
             PageProp(props[i].name, props[i].type,
                      IF props[i].type = "relation" THEN refs ELSE <<>>)]]>>

Record(id, title, props, pages) ==
    [source_database_id |-> id,
     database |-> [id |-> id, title |-> title, properties |-> props],
     pages |-> pages]

TitlesA == {<<>>, <<"T1">>}
TitlesB == {<<"T1">>, <<"T2">>}
PropsA == {PlainProps, FullProps(SrcB, SrcB), OddProps}
PropsB == {PlainProps, FullProps(SrcA, SrcA)}

\* the dumps: two schemas in manifest order, with or without their records
\* (two of the first schema, one of the second; "zz" is a record of no dump)
Dumps ==
    {[manifest |-> [format_version |-> DUMP_FORMAT_VERSION, include_data |-> d],
      records |-> <<Record(SrcA, ta, pa,
                           IF d THEN PagesOf(pa, "p1", <<"q1", "zz">>)
                                     \o PagesOf(pa, "p2", <<"p1">>)
                           ELSE <<>>),
                    Record(SrcB, tb, pb, IF d THEN PagesOf(pb, "q1", <<"p1">>) ELSE <<>>)>>] :
        ta \in TitlesA, tb \in TitlesB, pa \in PropsA, pb \in PropsB, d \in BOOLEAN}

\* ------------------------------------------------------------------ state
VARIABLES
    manifest,       \* manifest.json of the dump directory
    records,        \* the database files of the dump, in manifest order
    store,          \* id_mapping.json: [exists, doc]
    dest_dbs,       \* child databases of the destination parent, in block order
    dest_pages,     \* pages created at the destination
    next_id,        \* ids the destination has handed out
    pc,             \* position of the running command
    include_data,   \* --copy-data of the running upload
    id_mapping,     \* the loaded id_mapping document of the running command
    loaded,         \* what load_id_mapping returned at the start of the command
    source_to_destination_db_map,
    existing_dbs_by_title,
    idx,            \* index of the current loop
    warnings,
    source_to_destination_page_map,
    deferred_page_relations,
    plan,           \* the calls of the current loop, in order
    calls,          \* the write calls the running command has issued, in order
    sent,           \* deferred properties submitted so far: [src, dest, name]
    resent,         \* those submitted more than once
    runs,           \* commands started
    faults,         \* remote calls that failed
    auto_props,     \* reverse relation properties the destination generated
    exit_code,      \* of the last command that ended
    run,            \* the running command: what it is, what it found when it
                    \* started, and how the command before it ended
    cli,            \* one invocation of the program: its arguments, the dump
                    \* directory it works on, and how far main has come
    http,           \* one call of NotionClient.request: its attempts so far
    reader          \* one paginated read: the server's pages, the requests made
                    \* and the results yielded so far

vars ==
    <<run, manifest, records, store, dest_dbs, dest_pages, next_id, pc, include_data,
      id_mapping, loaded, source_to_destination_db_map, existing_dbs_by_title, idx,
      warnings, source_to_destination_page_map, deferred_page_relations,
      plan, calls, sent, resent, runs, faults, auto_props, exit_code, cli, http, reader>>

\* ------------------------------------------------------- the mapping store
load_id_mapping_raw(st) == st.doc

\* json.loads of the file, or the default document when the file is absent
load_id_mapping(st) ==
    IF st.exists THEN st.doc
    ELSE [database_mappings |-> <<>>, relation_properties |-> <<>>]

save_id_mapping_lost(doc, now) == store

\* id_mapping["updated_at"] = now, then the document is written
save_id_mapping(doc, now) ==
    [exists |-> TRUE, doc |-> ("updated_at" :> now) @@ doc]

\* dict.get(key, default)
DocGet(doc, key, default) == IF key \in DOMAIN doc THEN doc[key] ELSE default

DocSet_fresh(doc, key, value) == (key :> value)

\* doc[key] = value
DocSet(doc, key, value) == (key :> value) @@ doc

\* ----------------------------------------------------- what upload derives
source_database_ids == [i \in 1..Len(records) |-> records[i].source_database_id]

source_databases(src) ==
    records[CHOOSE i \in 1..Len(records) : records[i].source_database_id = src].database

all_db_properties ==
    [i \in 1..Len(records) |->
        [id |-> records[i].source_database_id,
         properties |-> records[i].database.properties]]

RECURSIVE ExistingFrom(_, _, _)
\* existing_dbs_by_title after the children dbs[1..i], where the get_database
\* of the children in failed raised NotionAPIError
ExistingFrom(dbs, i, failed) ==
    IF i = 0 THEN <<>>
    ELSE IF i \in failed \/ get_database_title_plain(dbs[i]) = ""
    THEN ExistingFrom(dbs, i - 1, failed)
    ELSE (get_database_title_plain(dbs[i]) :> dbs[i].id) @@ ExistingFrom(dbs, i - 1, failed)

newly_created_ids_all(idm) == source_database_ids

\* lines 884-885: the source schemas that are not in skipped_databases
newly_created_ids(idm) ==
    SeqFilter(source_database_ids,
              Range(source_database_ids) \ Range(DocGet(idm, "skipped_databases", <<>>)))

\* the update_database calls of one schema: one per property of props
SchemaCalls(src, m, props) ==
    IF MapHas(m, src)
    THEN [j \in 1..Len(props) |->
            [src |-> src, dest |-> MapGet(m, src),
             name |-> props[j].name, payload |-> props[j].payload]]
    ELSE <<>>

RECURSIVE PhasePlanFrom(_, _, _, _)
\* the update_database calls of one deferred phase, in the order of the loops
PhasePlanFrom(type, ids, i, m) ==
    IF i > Len(ids) THEN <<>>
    ELSE SchemaCalls(ids[i], m,
                     OfType(build_database_properties(
                                source_databases(ids[i]).properties, m, TRUE,
                                all_db_properties).deferred,
                            type))
         \o PhasePlanFrom(type, ids, i + 1, m)

PhaseType_swapped(phase) ==
    CASE phase = "phase1" -> "rollup"
      [] phase = "phase2" -> "relation"
      [] OTHER -> "formula"

PhaseType(phase) ==
    CASE phase = "phase1" -> "relation"
      [] phase = "phase2" -> "rollup"
      [] OTHER -> "formula"

RECURSIVE PagePlanFrom(_, _)
\* the create_page calls of the record pass
PagePlanFrom(i, m) ==
    IF i > Len(records) THEN <<>>
    ELSE (IF MapHas(m, records[i].source_database_id)
          THEN [j \in 1..Len(records[i].pages) |->
                  [src |-> records[i].source_database_id,
                   dest |-> MapGet(m, records[i].source_database_id),
                   page |-> records[i].pages[j]]]
          ELSE <<>>)
         \o PagePlanFrom(i + 1, m)

Plan_every_schema(phase, m, idm, incl, dpr) ==
    CASE phase \in {"phase1", "phase2", "phase3"} ->
            PhasePlanFrom(PhaseType(phase), source_database_ids, 1, m)
      [] phase = "pages" ->
            IF incl /\ manifest.include_data THEN PagePlanFrom(1, m) ELSE <<>>
      [] phase = "page_relations" ->
            IF incl /\ manifest.include_data THEN dpr ELSE <<>>
      [] OTHER -> <<>>

Plan_whatever_the_flags(phase, m, idm, incl, dpr) ==
    CASE phase \in {"phase1", "phase2", "phase3"} ->
            PhasePlanFrom(PhaseType(phase), newly_created_ids(idm), 1, m)
      [] phase = "pages" -> PagePlanFrom(1, m)
      [] phase = "page_relations" -> dpr
      [] OTHER -> <<>>

\* the calls a position of upload has to make
Plan(phase, m, idm, incl, dpr) ==
    CASE phase \in {"phase1", "phase2", "phase3"} ->
            PhasePlanFrom(PhaseType(phase), newly_created_ids(idm), 1, m)
      [] phase = "pages" ->
            IF incl /\ manifest.include_data THEN PagePlanFrom(1, m) ELSE <<>>
      [] phase = "page_relations" ->
            IF incl /\ manifest.include_data THEN dpr ELSE <<>>
      [] OTHER -> <<>>

Later_rollups_first(phase) ==
    CASE phase = "save" -> <<"phase2", "phase1", "phase3", "pages", "page_relations">>
      [] phase = "phase2" -> <<"phase1", "phase3", "pages", "page_relations">>
      [] phase = "phase1" -> <<"phase3", "pages", "page_relations">>
      [] phase = "phase3" -> <<"pages", "page_relations">>
      [] phase = "pages" -> <<"page_relations">>
      [] OTHER -> <<>>

\* lines 887-994, 1003-1046: the loops of upload after the store is saved, in
\* the order of the code
Later(phase) ==
    CASE phase = "save" -> <<"phase1", "phase2", "phase3", "pages", "page_relations">>
      [] phase = "phase1" -> <<"phase2", "phase3", "pages", "page_relations">>
      [] phase = "phase2" -> <<"phase3", "pages", "page_relations">>
      [] phase = "phase3" -> <<"pages", "page_relations">>
      [] phase = "pages" -> <<"page_relations">>
      [] OTHER -> <<>>

\* the first of the positions later that has calls to make, else "done"
FirstBusy(later, busy) ==
    IF busy = {} THEN "done"
    ELSE later[CHOOSE i \in busy : \A j \in busy : i <= j]

\* the next position with a call to make, "done" when the function returns
NextPc(phase, m, idm, incl, dpr) ==
    FirstBusy(Later(phase),
              {i \in 1..Len(Later(phase)) :
                  Len(Plan(Later(phase)[i], m, idm, incl, dpr)) > 0})

SchemaPhases == {"save", "phase1", "phase2", "phase3"}

\* the warning of line 1000, added when control leaves the deferred phases
DataWarning(phase, next, incl) ==
    IF /\ phase \in SchemaPhases
       /\ next \notin SchemaPhases
       /\ incl /\ ~manifest.include_data
    THEN <<[w |-> "dump_without_data", name |-> ""]>>
    ELSE <<>>

\* ------------------------------------------------------------ remote calls
\* how a remote call can end: its response, NotionAPIError (a 4xx/5xx, or the
\* retries exhausted), or an exception of the transport (requests.RequestException)
Outcomes == {"ok", "api_error", "transport_error"}

CanFail(outcome) == outcome = "ok" \/ faults < MaxFaults

Fault(outcome) == IF outcome = "ok" THEN 0 ELSE 1

FreshId == DestIdPool[next_id + 1]

Call(op, src, dest, name, payload, result) ==
    [op |-> op, src |-> src, dest |-> dest, name |-> name, payload |-> payload,
     result |-> result]

DestIndex(id) == CHOOSE i \in 1..Len(dest_dbs) : dest_dbs[i].id = id

IsDestDb(id) == \E i \in 1..Len(dest_dbs) : dest_dbs[i].id = id

\* PATCH /databases/{id}: the property is added to (or replaced in) the schema
ApplyProperty(dbs, id, name, payload) ==
    [i \in 1..Len(dbs) |->
        IF dbs[i].id = id
        THEN [dbs[i] EXCEPT !.properties = DictSet(dbs[i].properties, name, payload)]
        ELSE dbs[i]]

\* ---------------------------------------------------------------- upload
DestIds == {dest_dbs[i].id : i \in 1..Len(dest_dbs)}

\* what is recorded of a command when it starts
Started(command) ==
    [command |-> command,
     store_exists |-> store.exists,
     faults |-> faults,
     last |-> [command |-> run.command,
               exit_code |-> IF pc = "idle" THEN 0 ELSE exit_code,
               completed |-> pc = "done",
               dest_ids |-> DestIds,
               created |-> {[src |-> calls[i].src, dest |-> calls[i].dest] :
                               i \in {j \in 1..Len(calls) :
                                         /\ calls[j].op = "create_database"
                                         /\ calls[j].result = "ok"}}]]

Resting == pc \in {"idle", "done", "failed"}

\* control moves to the position next, whose calls are derived on entry
Goto(next, m, idm, incl, dpr) ==
    /\ pc' = next
    /\ idx' = 1
    /\ plan' = Plan(next, m, idm, incl, dpr)
    /\ exit_code' = IF next = "done" THEN 0 ELSE exit_code

\* an error that the command does not catch ends it with exit code 1
\* (command_upload, lines 1298-1300; command_repair, lines 1313-1315)
Abort ==
    /\ pc' = "failed"
    /\ exit_code' = 1
    /\ UNCHANGED <<idx, plan>>

\* lines 795-814: the dump and the mapping store are read
UploadStart(incl) ==
    /\ Resting
    /\ runs < MaxRuns
    /\ manifest.format_version \in {1, 2}
    /\ pc' = "discover"
    /\ run' = Started("upload")
    /\ include_data' = incl
    /\ id_mapping' = load_id_mapping(store)
    /\ loaded' = load_id_mapping(store)
    /\ source_to_destination_db_map' = <<>>
    /\ existing_dbs_by_title' = <<>>
    /\ idx' = 1
    /\ plan' = <<>>
    /\ warnings' = <<>>
    /\ source_to_destination_page_map' = <<>>
    /\ deferred_page_relations' = <<>>
    /\ calls' = <<>>
    /\ runs' = runs + 1
    /\ UNCHANGED <<cli, http, reader, manifest, records, store, dest_dbs, dest_pages, next_id, sent,
                   resent, faults, auto_props, exit_code>>

\* lines 816-829: the children of the parent are listed and each child database
\* is fetched; a fetch that raises NotionAPIError leaves that database out
Discover(failed) ==
    /\ pc = "discover"
    /\ faults + Cardinality(failed) <= MaxFaults
    /\ existing_dbs_by_title' = ExistingFrom(dest_dbs, Len(dest_dbs), failed)
    /\ pc' = "create"
    /\ idx' = 1
    /\ faults' = faults + Cardinality(failed)
    /\ UNCHANGED <<cli, http, reader, run, manifest, records, store, dest_dbs, dest_pages, next_id,
                   include_data, id_mapping, loaded, source_to_destination_db_map,
                   warnings, source_to_destination_page_map, deferred_page_relations,
                   plan, calls, sent, resent, runs, auto_props, exit_code>>

\* get_block_children fails, or a get_database fails in the transport
DiscoverFatal ==
    /\ pc = "discover"
    /\ faults < MaxFaults
    /\ Abort
    /\ faults' = faults + 1
    /\ UNCHANGED <<cli, http, reader, run, manifest, records, store, dest_dbs, dest_pages, next_id,
                   include_data, id_mapping, loaded, source_to_destination_db_map,
                   existing_dbs_by_title, warnings, source_to_destination_page_map,
                   deferred_page_relations, calls, sent, resent, runs, auto_props>>

\* after the last schema of the create-or-skip loop comes the save
AfterCreate == IF idx = Len(source_database_ids) THEN "save" ELSE "create"

\* lines 843-850: a schema whose title is already at the destination is skipped
SkipExisting ==
    /\ pc = "create"
    /\ LET src == source_database_ids[idx]
           source_title == get_database_title_plain(source_databases(src))
       IN /\ source_title # ""
          /\ source_title \in DOMAIN existing_dbs_by_title
          /\ source_to_destination_db_map' =
                MapSet(source_to_destination_db_map, src,
                       existing_dbs_by_title[source_title])
          /\ id_mapping' =
                DocSet(id_mapping, "skipped_databases",
                       Append(DocGet(id_mapping, "skipped_databases", <<>>), src))
    /\ pc' = AfterCreate
    /\ idx' = idx + 1
    /\ UNCHANGED <<cli, http, reader, run, manifest, records, store, dest_dbs, dest_pages, next_id,
                   include_data, loaded, existing_dbs_by_title, warnings,
                   source_to_destination_page_map, deferred_page_relations, plan,
                   calls, sent, resent, runs, faults, auto_props, exit_code>>

\* lines 852-872: the schema is created with its immediate properties; an
\* error of create_database is not caught
CreateDatabase(outcome) ==
    /\ pc = "create"
    /\ CanFail(outcome)
    /\ next_id < Len(DestIdPool)
    /\ LET src == source_database_ids[idx]
           source_db == source_databases(src)
           source_title == get_database_title_plain(source_db)
           built == build_database_properties(source_db.properties,
                                              source_to_destination_db_map, TRUE,
                                              all_db_properties)
           property_warnings == [i \in 1..Len(built.warnings) |->
                                   [w |-> built.warnings[i].w,
                                    name |-> built.warnings[i].name, src |-> src]]
       IN /\ ~(source_title # "" /\ source_title \in DOMAIN existing_dbs_by_title)
          /\ warnings' = warnings \o property_warnings
          /\ calls' = Append(calls, Call("create_database", src,
                                         IF outcome = "ok" THEN FreshId ELSE "",
                                         "", built.immediate, outcome))
          /\ faults' = faults + Fault(outcome)
          /\ IF outcome = "ok"
             THEN /\ dest_dbs' = Append(dest_dbs,
                                        [id |-> FreshId,
                                         title |-> sanitize_database_title(source_db),
                                         properties |-> built.immediate])
                  /\ next_id' = next_id + 1
                  /\ source_to_destination_db_map' =
                        MapSet(source_to_destination_db_map, src, FreshId)
                  /\ existing_dbs_by_title' =
                        IF source_title # ""
                        THEN (source_title :> FreshId) @@ existing_dbs_by_title
                        ELSE existing_dbs_by_title
                  /\ pc' = AfterCreate
                  /\ idx' = idx + 1
                  /\ UNCHANGED <<plan, exit_code>>
             ELSE /\ Abort
                  /\ UNCHANGED <<dest_dbs, next_id, source_to_destination_db_map,
                                 existing_dbs_by_title>>
    /\ UNCHANGED <<cli, http, reader, run, manifest, records, store, dest_pages, include_data, id_mapping,
                   loaded, source_to_destination_page_map, deferred_page_relations,
                   sent, resent, runs, auto_props>>

\* lines 876-881: the schema map replaces database_mappings and the store is written
SavedTo(saved, next) ==
    /\ id_mapping' = saved.doc
    /\ store' = saved
    /\ Goto(next, source_to_destination_db_map, saved.doc, include_data,
            deferred_page_relations)
    /\ warnings' = warnings \o DataWarning("save", next, include_data)

Saved_and_again(saved) == SavedTo(saved, "save")

Saved(saved) ==
    SavedTo(saved, NextPc("save", source_to_destination_db_map, saved.doc,
                          include_data, deferred_page_relations))

SaveMappings ==
    /\ pc = "save"
    /\ Saved(save_id_mapping(DocSet(id_mapping, "database_mappings",
                                    source_to_destination_db_map), runs))
    /\ UNCHANGED <<cli, http, reader, run, manifest, records, dest_dbs, dest_pages, next_id, include_data,
                   loaded, source_to_destination_db_map, existing_dbs_by_title,
                   source_to_destination_page_map, deferred_page_relations, calls,
                   sent, resent, runs, faults, auto_props>>

\* the position after the call idx of the current loop
Advance(next, dpr) ==
    IF idx < Len(plan)
    THEN /\ idx' = idx + 1
         /\ UNCHANGED <<pc, plan, exit_code>>
    ELSE Goto(next, source_to_destination_db_map, id_mapping, include_data, dpr)

\* the reverse relation property the destination may generate on the target of
\* a relation it has just created
ReverseName(id) == "Related to " \o get_database_title_plain(dest_dbs[DestIndex(id)])

CanReverse(c) ==
    /\ c.payload.type = "relation"
    /\ IsDestDb(c.payload.config.database_id)
    /\ c.payload.config.database_id # c.dest
    /\ ReverseName(c.dest)
          \notin DictKeys(dest_dbs[DestIndex(c.payload.config.database_id)].properties)
    /\ auto_props < MaxReverse

WithReverse(dbs, c) ==
    ApplyProperty(dbs, c.payload.config.database_id, ReverseName(c.dest),
                  [type |-> "relation",
                   config |-> [database_id |-> c.dest, single_property |-> EmptyCfg]])

LeavesPhase_on_any_error(outcome) == outcome # "ok"

\* lines 914-919, 950-955, 986-991: the try around update_database catches
\* NotionAPIError only; any other exception leaves the loop and the function
LeavesPhase(outcome) == outcome = "transport_error"

\* lines 887-994: one update_database call of Phase 1 (relations), Phase 2
\* (rollups) or Phase 3 (formulas); NotionAPIError is caught as a warning
ApplyDeferred(outcome, reverse) ==
    /\ pc \in {"phase1", "phase2", "phase3"}
    /\ CanFail(outcome)
    /\ LET c == plan[idx]
           key == [src |-> c.src, dest |-> c.dest, name |-> c.name]
           next == IF idx < Len(plan) THEN pc
                   ELSE NextPc(pc, source_to_destination_db_map, id_mapping,
                               include_data, deferred_page_relations)
       IN /\ reverse => (outcome = "ok" /\ CanReverse(c))
          /\ calls' = Append(calls, Call("update_database", c.src, c.dest, c.name,
                                         c.payload, outcome))
          /\ sent' = sent \cup {key}
          /\ resent' = IF key \in sent THEN resent \cup {key} ELSE resent
          /\ faults' = faults + Fault(outcome)
          /\ auto_props' = IF reverse THEN auto_props + 1 ELSE auto_props
          /\ dest_dbs' =
                IF outcome # "ok" THEN dest_dbs
                ELSE IF reverse
                THEN WithReverse(ApplyProperty(dest_dbs, c.dest, c.name, c.payload), c)
                ELSE ApplyProperty(dest_dbs, c.dest, c.name, c.payload)
          /\ IF LeavesPhase(outcome)
             THEN /\ Abort
                  /\ UNCHANGED warnings
             ELSE /\ Advance(next, deferred_page_relations)
                  /\ warnings' =
                        warnings
                        \o (IF outcome = "api_error"
                            THEN <<[w |-> "apply_failed", name |-> c.name, src |-> c.src]>>
                            ELSE <<>>)
                        \o DataWarning(pc, next, include_data)
    /\ UNCHANGED <<cli, http, reader, run, manifest, records, store, dest_pages, next_id, include_data,
                   id_mapping, loaded, source_to_destination_db_map,
                   existing_dbs_by_title, source_to_destination_page_map,
                   deferred_page_relations, runs>>

\* ------------------------------------------------------------ record pass
WritableTypes ==
    {"title", "rich_text", "number", "select", "multi_select", "date", "people",
     "files", "checkbox", "url", "email", "phone_number", "status"}

build_page_properties_for_create_whole(source_page_properties) ==
    source_page_properties

\* the properties of a create_page payload: the simple-typed ones
build_page_properties_for_create(source_page_properties) ==
    SeqFilter(source_page_properties,
              {source_page_properties[i] :
                  i \in {j \in 1..Len(source_page_properties) :
                            source_page_properties[j].type \in WritableTypes}})

\* the relation-typed properties of a source page with the referenced ids
extract_relation_properties_for_update(source_page_properties) ==
    SeqFilter(source_page_properties,
              {source_page_properties[i] :
                  i \in {j \in 1..Len(source_page_properties) :
                            source_page_properties[j].type = "relation"}})

remap_relation_update_raw(relation_update, page_map) == relation_update

\* every property of the update is kept; of its references, those the record
\* map resolves, as destination ids
remap_relation_update(relation_update, page_map) ==
    [i \in 1..Len(relation_update) |->
        [relation_update[i] EXCEPT !.relation =
            LET refs == relation_update[i].relation
                known == SeqFilter(refs, DOMAIN page_map)
            IN [j \in 1..Len(known) |-> page_map[known[j]]]]]

RecordedPage_always(outcome, source_page_id) ==
    (source_page_id :> FreshId) @@ source_to_destination_page_map

\* lines 1032-1035: the record map after a create_page call
RecordedPage(outcome, source_page_id) ==
    IF outcome = "ok" /\ source_page_id # ""
    THEN (source_page_id :> FreshId) @@ source_to_destination_page_map
    ELSE source_to_destination_page_map

\* lines 1015-1039: one create_page call; NotionAPIError is caught as a warning
CreatePage(outcome) ==
    /\ pc = "pages"
    /\ CanFail(outcome)
    /\ next_id < Len(DestIdPool)
    /\ LET c == plan[idx]
           page_properties == build_page_properties_for_create(c.page.properties)
           relation_update == extract_relation_properties_for_update(c.page.properties)
           dpr == IF outcome = "ok" /\ c.page.id # "" /\ relation_update # <<>>
                  THEN Append(deferred_page_relations,
                              [page |-> FreshId, update |-> relation_update])
                  ELSE deferred_page_relations
           next == NextPc(pc, source_to_destination_db_map, id_mapping, include_data, dpr)
       IN /\ calls' = Append(calls, Call("create_page", c.page.id, c.dest, "",
                                         page_properties, outcome))
          /\ faults' = faults + Fault(outcome)
          /\ deferred_page_relations' = dpr
          /\ source_to_destination_page_map' = RecordedPage(outcome, c.page.id)
          /\ IF outcome = "ok"
             THEN /\ dest_pages' = Append(dest_pages,
                                          [id |-> FreshId, database_id |-> c.dest,
                                           properties |-> page_properties])
                  /\ next_id' = next_id + 1
             ELSE UNCHANGED <<dest_pages, next_id>>
          /\ IF outcome = "transport_error"
             THEN /\ Abort
                  /\ UNCHANGED warnings
             ELSE /\ Advance(next, dpr)
                  /\ warnings' =
                        warnings \o (IF outcome = "api_error"
                                     THEN <<[w |-> "page_create_failed", name |-> c.page.id,
                                             src |-> c.src]>>
                                     ELSE <<>>)
    /\ UNCHANGED <<cli, http, reader, run, manifest, records, store, dest_dbs, include_data, id_mapping,
                   loaded, source_to_destination_db_map, existing_dbs_by_title, sent,
                   resent, runs, auto_props>>

\* PATCH /pages/{id}: the named properties get the new values
PatchPage(pages, id, update) ==
    [i \in 1..Len(pages) |->
        IF pages[i].id = id
        THEN [pages[i] EXCEPT !.properties =
                 SeqFilter(pages[i].properties,
                           {q \in Range(pages[i].properties) :
                               \A k \in 1..Len(update) : update[k].name # q.name})
                 \o update]
        ELSE pages[i]]

\* lines 1045-1053: one update_page call with the remapped relations;
\* NotionAPIError is caught as a warning
UpdatePageRelations(outcome) ==
    /\ pc = "page_relations"
    /\ CanFail(outcome)
    /\ LET c == plan[idx]
           remapped_update == remap_relation_update(c.update,
                                                    source_to_destination_page_map)
       IN /\ remapped_update # <<>>
          /\ calls' = Append(calls, Call("update_page", "", c.page, "",
                                         remapped_update, outcome))
          /\ faults' = faults + Fault(outcome)
          /\ dest_pages' = IF outcome = "ok"
                           THEN PatchPage(dest_pages, c.page, remapped_update)
                           ELSE dest_pages
          /\ IF outcome = "transport_error"
             THEN /\ Abort
                  /\ UNCHANGED warnings
             ELSE /\ Advance("done", deferred_page_relations)
                  /\ warnings' =
                        warnings \o (IF outcome = "api_error"
                                     THEN <<[w |-> "relation_update_failed",
                                             name |-> c.page, src |-> ""]>>
                                     ELSE <<>>)
    /\ UNCHANGED <<cli, http, reader, run, manifest, records, store, dest_dbs, next_id, include_data,
                   id_mapping, loaded, source_to_destination_db_map,
                   existing_dbs_by_title, source_to_destination_page_map,
                   deferred_page_relations, sent, resent, runs, auto_props>>

\* ----------------------------------------------------------------- repair
\* "-" in id
HasHyphen(id) == NoHyphen(id) # id

TitleUniverse == {"", "T1", "T2", "Duplicated " \o SrcA, "Duplicated " \o SrcB}

\* name.startswith("Related to ")
StartsWithRelatedTo(name) == name \in {"Related to " \o t : t \in TitleUniverse}

RECURSIVE DbMapFrom(_, _)
\* lines 1081-1088: db_map, with the ids as stored and without hyphens
DbMapFrom(mappings, i) ==
    IF i = 0 THEN <<>>
    ELSE LET src_id == mappings[i].source_id
             dst_id == mappings[i].dest_id
             rest == DbMapFrom(mappings, i - 1)
         IN IF src_id # "" /\ dst_id # ""
            THEN MapSet(MapSet(rest, NoHyphen(src_id), NoHyphen(dst_id)), src_id, dst_id)
            ELSE rest

DbMap(idm) ==
    LET mappings == DocGet(idm, "database_mappings", <<>>)
    IN DbMapFrom(mappings, Len(mappings))

\* lines 1095-1102: the relation property names of a source schema (normalized id)
OriginalRelations(idm, src) ==
    LET rels == DocGet(idm, "relation_properties", <<>>)
    IN {rels[i].property_name :
           i \in {j \in 1..Len(rels) : /\ NoHyphen(rels[j].source_db_id) = src
                                       /\ rels[j].source_db_id # ""
                                       /\ rels[j].property_name # ""}}

RECURSIVE DestToSourceFrom(_, _)
\* lines 1125-1128: destination id -> source id over the entries whose source
\* id has no hyphen
DestToSourceFrom(db_map, i) ==
    IF i = 0 THEN <<>>
    ELSE IF ~HasHyphen(db_map[i].source_id)
    THEN (db_map[i].dest_id :> db_map[i].source_id) @@ DestToSourceFrom(db_map, i - 1)
    ELSE DestToSourceFrom(db_map, i - 1)

DestToSource(db_map) == DestToSourceFrom(db_map, Len(db_map))

\* lines 1145-1156: the properties of one destination schema to delete
ToDeleteById(dest_db, original_prop_names) ==
    LET props == dest_db.properties
        hit == {i \in 1..Len(props) : /\ props[i].payload.type = "relation"
                                      /\ props[i].name \notin original_prop_names
                                      /\ StartsWithRelatedTo(props[i].name)}
        names == [i \in 1..Len(props) |-> props[i].name]
    IN SeqFilter(names, {names[i] : i \in hit})

RECURSIVE RepairPlanByIdFrom(_, _)
\* lines 1134-1170: the deletion calls of the id-mapping path, in order
RepairPlanByIdFrom(idm, i) ==
    IF i > Len(dest_dbs) THEN <<>>
    ELSE LET dest_to_source == DestToSource(DbMap(idm))
             dest_id_norm == NoHyphen(dest_dbs[i].id)
             known == /\ dest_id_norm \in DOMAIN dest_to_source
                      /\ OriginalRelations(idm, dest_to_source[dest_id_norm]) # {}
             to_delete == IF known
                          THEN ToDeleteById(dest_dbs[i],
                                            OriginalRelations(idm, dest_to_source[dest_id_norm]))
                          ELSE <<>>
         IN (IF to_delete # <<>>
             THEN <<[dest |-> dest_dbs[i].id, to_delete |-> to_delete]>>
             ELSE <<>>)
            \o RepairPlanByIdFrom(idm, i + 1)

\* lines 1188-1193: original property names per source title, later records win
OriginalPropsByTitle(title) ==
    LET with == {i \in 1..Len(records) :
                    get_database_title_plain(records[i].database) = title}
        last == CHOOSE i \in with : \A j \in with : j <= i
    IN {records[last].database.properties[k].name :
           k \in 1..Len(records[last].database.properties)}

TitleInDump(title) ==
    /\ title # ""
    /\ \E i \in 1..Len(records) : get_database_title_plain(records[i].database) = title

\* lines 1223-1241: a prefixed relation property is deleted when an original
\* name is a relation property of the destination schema with the same target
ToDeleteByTitle(dest_db, original_names) ==
    LET props == dest_db.properties
        hit == {i \in 1..Len(props) :
                   /\ StartsWithRelatedTo(props[i].name)
                   /\ props[i].payload.type = "relation"
                   /\ \E k \in 1..Len(props) :
                         /\ props[k].name \in original_names
                         /\ props[k].payload.type = "relation"
                         /\ props[k].payload.config.database_id =
                               props[i].payload.config.database_id}
        names == [i \in 1..Len(props) |-> props[i].name]
    IN SeqFilter(names, {names[i] : i \in hit})

RECURSIVE RepairPlanByTitleFrom(_)
\* lines 1198-1254: the deletion calls of the title path; the destination
\* schemas are a dict by title: first position, last schema of that title
RepairPlanByTitleFrom(i) ==
    IF i > Len(dest_dbs) THEN <<>>
    ELSE LET title == get_database_title_plain(dest_dbs[i])
             first == \A j \in 1..(i - 1) : get_database_title_plain(dest_dbs[j]) # title
             same == {j \in 1..Len(dest_dbs) : get_database_title_plain(dest_dbs[j]) = title}
             last == CHOOSE j \in same : \A k \in same : k <= j
             to_delete == IF first /\ TitleInDump(title)
                          THEN ToDeleteByTitle(dest_dbs[last], OriginalPropsByTitle(title))
                          ELSE <<>>
         IN (IF to_delete # <<>>
             THEN <<[dest |-> dest_dbs[last].id, to_delete |-> to_delete]>>
             ELSE <<>>)
            \o RepairPlanByTitleFrom(i + 1)

RepairPlan(path, idm) ==
    IF path = "repair_ids" THEN RepairPlanByIdFrom(idm, 1) ELSE RepairPlanByTitleFrom(1)

\* PATCH /databases/{id} with {name: None}: the named properties are removed
RemoveProperties(dbs, id, names) ==
    [i \in 1..Len(dbs) |->
        IF dbs[i].id = id
        THEN [dbs[i] EXCEPT !.properties =
                 SeqFilter(dbs[i].properties,
                           {q \in Range(dbs[i].properties) : q.name \notin Range(names)})]
        ELSE dbs[i]]

\* lines 1077-1092 and 1184-1185: the store is read; without schema mappings
\* repair goes on by title, which reads the dump
RepairStart ==
    /\ Resting
    /\ runs < MaxRuns
    /\ LET idm == load_id_mapping(store)
           path == IF DbMap(idm) # <<>> THEN "repair_ids" ELSE "repair_titles"
       IN /\ path = "repair_titles" => manifest.format_version \in {1, 2}
          /\ id_mapping' = idm
          /\ loaded' = idm
          /\ pc' = path
    /\ run' = Started("repair")
    /\ idx' = 0
    /\ plan' = <<>>
    /\ calls' = <<>>
    /\ warnings' = <<>>
    /\ source_to_destination_db_map' = <<>>
    /\ existing_dbs_by_title' = <<>>
    /\ source_to_destination_page_map' = <<>>
    /\ deferred_page_relations' = <<>>
    /\ runs' = runs + 1
    /\ UNCHANGED <<cli, http, reader, manifest, records, store, dest_dbs, dest_pages, next_id,
                   include_data, sent, resent, faults, auto_props, exit_code>>

RepairFetch_saving(outcome) ==
    /\ pc \in {"repair_ids", "repair_titles"}
    /\ idx = 0
    /\ outcome = "ok"
    /\ plan' = RepairPlan(pc, id_mapping)
    /\ idx' = 1
    /\ store' = save_id_mapping(id_mapping, runs)
    /\ IF RepairPlan(pc, id_mapping) = <<>>
       THEN pc' = "done" /\ exit_code' = 0
       ELSE UNCHANGED <<pc, exit_code>>
    /\ UNCHANGED <<cli, http, reader, run, manifest, records, dest_dbs, dest_pages, next_id,
                   include_data, id_mapping, loaded, source_to_destination_db_map,
                   existing_dbs_by_title, warnings, source_to_destination_page_map,
                   deferred_page_relations, calls, sent, resent, runs, faults,
                   auto_props>>

\* lines 1111-1120, 1200-1208: the destination schemas are fetched (no error is
\* caught) and the deletions are derived from what was fetched
RepairFetch(outcome) ==
    /\ pc \in {"repair_ids", "repair_titles"}
    /\ idx = 0
    /\ outcome \in {"ok", "api_error"}
    /\ CanFail(outcome)
    /\ faults' = faults + Fault(outcome)
    /\ IF outcome = "ok"
       THEN /\ plan' = RepairPlan(pc, id_mapping)
            /\ idx' = 1
            /\ IF RepairPlan(pc, id_mapping) = <<>>
               THEN pc' = "done" /\ exit_code' = 0
               ELSE UNCHANGED <<pc, exit_code>>
       ELSE Abort
    /\ UNCHANGED <<cli, http, reader, run, manifest, records, store, dest_dbs, dest_pages, next_id,
                   include_data, id_mapping, loaded, source_to_destination_db_map,
                   existing_dbs_by_title, warnings, source_to_destination_page_map,
                   deferred_page_relations, calls, sent, resent, runs, auto_props>>

EndsRepair_on_any_error(outcome) == outcome # "ok"

\* lines 1161-1168, 1246-1252: the deletion call is in a try block that
\* catches NotionAPIError; any other exception ends the command
EndsRepair(outcome) == outcome = "transport_error"

\* lines 1158-1170, 1243-1254: the deletions of one schema, in one call;
\* NotionAPIError is caught and printed
RepairDelete(outcome) ==
    /\ pc \in {"repair_ids", "repair_titles"}
    /\ idx >= 1
    /\ CanFail(outcome)
    /\ LET c == plan[idx]
       IN /\ calls' = Append(calls, Call("delete_properties", "", c.dest, "",
                                         c.to_delete, outcome))
          /\ dest_dbs' = IF outcome = "ok"
                         THEN RemoveProperties(dest_dbs, c.dest, c.to_delete)
                         ELSE dest_dbs
          /\ faults' = faults + Fault(outcome)
          /\ IF EndsRepair(outcome)
             THEN Abort
             ELSE IF idx < Len(plan)
             THEN idx' = idx + 1 /\ UNCHANGED <<pc, plan, exit_code>>
             ELSE pc' = "done" /\ exit_code' = 0 /\ UNCHANGED <<idx, plan>>
    /\ UNCHANGED <<cli, http, reader, run, manifest, records, store, dest_pages, next_id, include_data,
                   id_mapping, loaded, source_to_destination_db_map,
                   existing_dbs_by_title, warnings, source_to_destination_page_map,
                   deferred_page_relations, sent, resent, runs, auto_props>>

\* ------------------------------------------------------------------- dump
\* lines 663-744, 1259-1285: the dump command run again on the same source and
\* directory: the record files are written again with the same content, and
\* manifest.json and id_mapping.json are written anew at the end, the store
\* with empty database_mappings.  The calls of the source are taken to succeed
\* (a failing one leaves manifest.json and id_mapping.json as they were).
Dump ==
    /\ Resting
    /\ run' = Started("dump")
    /\ manifest' = [manifest EXCEPT !.format_version = DUMP_FORMAT_VERSION]
    /\ store' = [exists |-> TRUE, doc |-> DumpIdMapping(records)]
    /\ pc' = "done"
    /\ exit_code' = 0
    /\ idx' = 0
    /\ plan' = <<>>
    /\ calls' = <<>>
    /\ warnings' = <<>>
    /\ id_mapping' = <<>>
    /\ loaded' = <<>>
    /\ source_to_destination_db_map' = <<>>
    /\ existing_dbs_by_title' = <<>>
    /\ source_to_destination_page_map' = <<>>
    /\ deferred_page_relations' = <<>>
    /\ UNCHANGED <<cli, http, reader, records, dest_dbs, dest_pages, next_id, include_data, sent,
                   resent, runs, faults, auto_props>>

\* ------------------------------------------------------------ specification
\* a database a user made under the destination parent before any upload
UserDb ==
    [id |-> DestIdPool[1], title |-> <<"T2">>,
     properties |-> <<[name |-> "Name",
                       payload |-> [type |-> "title", config |-> EmptyCfg]]>>]

\* the store beside a dump: none (a format 1 dump; the dump command makes it a
\* format 2 dump with its store), or one kept from before that maps a schema
\* that is not in this dump
Init ==
    /\ \E d \in Dumps, s \in {"none", "kept"} :
          /\ records = d.records
          /\ store = IF s = "none" THEN [exists |-> FALSE, doc |-> <<>>]
                     ELSE [exists |-> TRUE,
                           doc |-> DocSet(DumpIdMapping(d.records), "database_mappings",
                                          <<[source_id |-> ForeignDb, dest_id |-> "d-0"]>>)]
          /\ manifest = IF s = "none" THEN [d.manifest EXCEPT !.format_version = 1]
                        ELSE d.manifest
    /\ \E pre \in BOOLEAN :
          /\ dest_dbs = IF pre THEN <<UserDb>> ELSE <<>>
          /\ next_id = IF pre THEN 1 ELSE 0
    /\ dest_pages = <<>>
    /\ pc = "idle"
    /\ include_data = FALSE
    /\ id_mapping = <<>>
    /\ loaded = <<>>
    /\ source_to_destination_db_map = <<>>
    /\ existing_dbs_by_title = <<>>
    /\ idx = 0
    /\ warnings = <<>>
    /\ source_to_destination_page_map = <<>>
    /\ deferred_page_relations = <<>>
    /\ plan = <<>>
    /\ calls = <<>>
    /\ sent = {}
    /\ resent = {}
    /\ runs = 0
    /\ faults = 0
    /\ auto_props = 0
    /\ exit_code = 0
    /\ run = [command |-> "none", store_exists |-> FALSE, faults |-> 0,
              last |-> [command |-> "none", exit_code |-> 0, completed |-> FALSE,
                        dest_ids |-> {}, created |-> {}]]
    /\ cli = <<>>
    /\ http = <<>>
    /\ reader = <<>>

\* the commands run one after the other; every remote call ends in one of its
\* outcomes
Next ==
    \/ \E incl \in BOOLEAN : UploadStart(incl)
    \/ \E failed \in SUBSET (1..Len(dest_dbs)) : Discover(failed)
    \/ DiscoverFatal
    \/ SkipExisting
    \/ \E outcome \in {"ok", "api_error"} : CreateDatabase(outcome)
    \/ SaveMappings
    \/ \E outcome \in Outcomes, reverse \in BOOLEAN : ApplyDeferred(outcome, reverse)
    \/ \E outcome \in Outcomes : CreatePage(outcome)
    \/ \E outcome \in Outcomes : UpdatePageRelations(outcome)
    \/ RepairStart
    \/ \E outcome \in Outcomes : RepairFetch(outcome)
    \/ \E outcome \in Outcomes : RepairDelete(outcome)
    \/ Dump

Spec == Init /\ [][Next]_vars

\* the variables of the commands' work, which a single request and the
\* dispatch of a command line leave alone
work ==
    <<run, manifest, records, store, dest_dbs, dest_pages, next_id, pc, include_data,
      id_mapping, loaded, source_to_destination_db_map, existing_dbs_by_title, idx,
      warnings, source_to_destination_page_map, deferred_page_relations,
      plan, calls, sent, resent, runs, faults, auto_props, exit_code>>

\* nothing dumped, nothing uploaded, no command running
NoWork ==
    /\ records = <<>>
    /\ manifest = [format_version |-> DUMP_FORMAT_VERSION, include_data |-> FALSE]
    /\ store = [exists |-> FALSE, doc |-> <<>>]
    /\ dest_dbs = <<>> /\ dest_pages = <<>> /\ next_id = 0
    /\ pc = "idle" /\ include_data = FALSE
    /\ id_mapping = <<>> /\ loaded = <<>>
    /\ source_to_destination_db_map = <<>> /\ existing_dbs_by_title = <<>>
    /\ idx = 0 /\ warnings = <<>>
    /\ source_to_destination_page_map = <<>> /\ deferred_page_relations = <<>>
    /\ plan = <<>> /\ calls = <<>> /\ sent = {} /\ resent = {}
    /\ runs = 0 /\ faults = 0 /\ auto_props = 0 /\ exit_code = 0
    /\ run = [command |-> "none", store_exists |-> FALSE, faults |-> 0,
              last |-> [command |-> "none", exit_code |-> 0, completed |-> FALSE,
                        dest_ids |-> {}, created |-> {}]]

\* ------------------------------------------------ NotionClient.request
\* what the server may answer to one attempt: a status, a Retry-After header
\* (absent "", a number of seconds, or a date) and a body
Responses ==
    [status : {429}, retry_after : {"", "0", "3", "Fri, 31 Dec 1999 23:59:59 GMT"},
     body : {"b1"}]
    \cup [status : {200, 204, 400, 500}, retry_after : {""}, body : {"b1", "b2"}]

\* str.isdigit and int on the header values that occur
IsDigit(text) == text \in {"0", "3"}

ToInt(text) == IF text = "0" THEN 0 ELSE 3

wait_seconds_from_attempt(retry_after, attempt) == attempt

\* line 70: the seconds slept before the next attempt
wait_seconds(retry_after, attempt) ==
    IF retry_after # "" /\ IsDigit(retry_after) THEN ToInt(retry_after) ELSE attempt

ShouldRetry_on_any_error(status, attempt) == status >= 400 /\ attempt < MAX_RETRIES

\* line 68: the one case in which the loop goes on to another attempt
ShouldRetry(status, attempt) == status = 429 /\ attempt < MAX_RETRIES

\* line 58: the loop is entered with no attempt made
NewRequest == [attempt |-> 0, log |-> <<>>, waits |-> <<>>, result |-> "running",
               value |-> ""]

\* lines 58-86: one pass of the loop in which session.request returns a
\* response: sleep and go on, raise NotionAPIError, or return the body
\* ({} for status 204)
Attempt(response) ==
    /\ http.result = "running"
    /\ http.attempt < MAX_RETRIES
    /\ LET attempt == http.attempt + 1
           log == Append(http.log, response)
       IN http' =
             IF ShouldRetry(response.status, attempt)
             THEN [http EXCEPT !.attempt = attempt, !.log = log,
                               !.waits = Append(@, wait_seconds(response.retry_after,
                                                                attempt))]
             ELSE IF response.status >= 400
             THEN [http EXCEPT !.attempt = attempt, !.log = log,
                               !.result = "NotionAPIError"]
             ELSE [http EXCEPT !.attempt = attempt, !.log = log,
                               !.result = "returned",
                               !.value = IF response.status = 204 THEN "{}"
                                         ELSE response.body]
    /\ UNCHANGED <<work, cli, reader>>

\* lines 59-65: session.request raises (connection error, timeout); the
\* exception leaves request
AttemptFails ==
    /\ http.result = "running"
    /\ http.attempt < MAX_RETRIES
    /\ http' = [http EXCEPT !.attempt = @ + 1, !.result = "RequestException"]
    /\ UNCHANGED <<work, cli, reader>>

InitRequest ==
    /\ NoWork
    /\ cli = <<>>
    /\ reader = <<>>
    /\ http = NewRequest

NextRequest ==
    \/ \E response \in Responses : Attempt(response)
    \/ AttemptFails

SpecRequest == InitRequest /\ [][NextRequest]_vars

\* ------------------------------------------------------- the command line
\* what raises out of a step: the errors the commands catch (lines 1283, 1298,
\* 1313, 1360)
Caught == {"NotionAPIError", "DumpFormatError", "RequestException"}

\* the outcomes of a step that calls the API
StepOutcomes == {"ok", "NotionAPIError", "RequestException"}

\* lines 747-770: load_dump on the dump directory
load_dump_unchecked(dir) == "ok"

load_dump(dir) ==
    IF ~dir.manifest THEN "DumpFormatError"
    ELSE IF dir.format_version \notin {1, 2} THEN "DumpFormatError"
    ELSE IF ~dir.files THEN "DumpFormatError"
    ELSE "ok"

\* the command ends: main returns code, or the exception raised leaves main
\* uncaught and the interpreter exits with 1
Exit(c, step, outcome, code) ==
    [c EXCEPT !.at = "exited", !.exit = code,
              !.log = Append(@, [step |-> step, outcome |-> outcome])]

\* a step is done and the command goes on at next
Done(c, step, next) ==
    [c EXCEPT !.at = next, !.log = Append(@, [step |-> step, outcome |-> "ok"])]

\* lines 1439-1450, 1259-1268, 1318-1329: main dispatches on the command;
\* dump and run parse --database-id when it was given, and a value without an
\* id (parse_database_ids raises ValueError) makes them return 2
Main(command, database_id, src_all, auto_repair) ==
    /\ cli.at = "main"
    /\ command \in {"upload", "repair"}
          => (database_id = "absent" /\ ~src_all /\ auto_repair)
    /\ command = "dump" => auto_repair
    /\ LET c == [cli EXCEPT !.command = command, !.database_id = database_id,
                            !.src_all = src_all, !.auto_repair = auto_repair]
       IN cli' = IF command \in {"dump", "run"}
                 THEN IF database_id = "blank" THEN Exit(c, "parse", "ValueError", 2)
                      ELSE [c EXCEPT !.at = "resolve"]
                 ELSE [c EXCEPT !.at = command]
    /\ UNCHANGED <<work, http, reader>>

\* lines 187-205: resolve_source_database_ids; the search is made only with
\* --src-all-databases yes; with no id at all it raises ValueError, which
\* command_dump and command_run do not catch
Resolve(outcome, discovered) ==
    /\ cli.at = "resolve"
    /\ ~cli.src_all => (outcome = "ok" /\ ~discovered)
    /\ outcome # "ok" => ~discovered
    /\ LET c == [cli EXCEPT !.src_requests = IF cli.src_all THEN @ + 1 ELSE @]
       IN cli' = IF outcome # "ok" THEN Exit(c, "resolve", outcome, 1)
                 ELSE IF cli.database_id = "absent" /\ ~discovered
                 THEN Exit(c, "resolve", "ValueError", 1)
                 ELSE Done(c, "resolve", "dump")
    /\ UNCHANGED <<work, http, reader>>

\* lines 663-744: dump_databases_to_files fetches every schema and writes the
\* directory; command_dump then returns 0, command_run goes on to the upload
DumpStep(outcome) ==
    /\ cli.at = "dump"
    /\ LET c == [cli EXCEPT !.src_requests = @ + 1]
           written == [c EXCEPT !.dir = [manifest |-> TRUE,
                                         format_version |-> DUMP_FORMAT_VERSION,
                                         files |-> TRUE, store |-> "dumped"]]
       IN cli' = IF outcome # "ok" THEN Exit(c, "dump", outcome, 1)
                 ELSE IF cli.command = "dump" THEN Exit(written, "dump", "ok", 0)
                 ELSE Done(written, "dump", "upload")
    /\ UNCHANGED <<work, http, reader>>

\* lines 795-796: upload_dump_to_destination begins with load_dump, whose
\* DumpFormatError ends the command with 1
UploadLoad ==
    /\ cli.at = "upload"
    /\ cli' = IF load_dump(cli.dir) # "ok"
              THEN Exit(cli, "upload", load_dump(cli.dir), 1)
              ELSE [cli EXCEPT !.at = "upload_work"]
    /\ UNCHANGED <<work, http, reader>>

UploadWork_going_on(outcome, saved) ==
    /\ cli.at = "upload_work"
    /\ outcome = "ok" => saved
    /\ LET c == [cli EXCEPT !.dst_requests = @ + 1,
                            !.dir.store = IF saved THEN "mapped" ELSE @]
       IN cli' = IF cli.command = "run" /\ cli.auto_repair
                 THEN [c EXCEPT !.at = "repair",
                                !.log = Append(@, [step |-> "upload", outcome |-> outcome])]
                 ELSE Exit(c, "upload", outcome, IF outcome = "ok" THEN 0 ELSE 1)
    /\ UNCHANGED <<work, http, reader>>

\* lines 797-1063: the rest of the upload, from the listing of the parent's
\* children on; the store is written after the schemas are created, so an
\* error may come before or after that
UploadWork(outcome, saved) ==
    /\ cli.at = "upload_work"
    /\ outcome = "ok" => saved
    /\ LET c == [cli EXCEPT !.dst_requests = @ + 1,
                            !.dir.store = IF saved THEN "mapped" ELSE @]
       IN cli' = IF outcome # "ok" THEN Exit(c, "upload", outcome, 1)
                 ELSE IF cli.command = "run" /\ cli.auto_repair
                 THEN Done(c, "upload", "repair")
                 ELSE Exit(c, "upload", "ok", 0)
    /\ UNCHANGED <<work, http, reader>>

\* lines 1066-1172, 1175-1254: the repair; without a schema map in the store
\* it goes by titles and begins with load_dump
RepairStep(outcome) ==
    /\ cli.at = "repair"
    /\ cli' = IF cli.dir.store # "mapped" /\ load_dump(cli.dir) # "ok"
              THEN Exit(cli, "repair", load_dump(cli.dir), 1)
              ELSE IF outcome # "ok"
              THEN Exit([cli EXCEPT !.dst_requests = @ + 1], "repair", outcome, 1)
              ELSE Exit([cli EXCEPT !.dst_requests = @ + 1], "repair", "ok", 0)
    /\ UNCHANGED <<work, http, reader>>

\* a dump directory: whether manifest.json exists, its format version (1
\* when it states none), whether the schema files it names exist, and the
\* store (absent, as the dump wrote it, or with a schema map)
Dir(manifest_, format_version, files, store_) ==
    [manifest |-> manifest_, format_version |-> format_version, files |-> files,
     store |-> store_]

\* the program is started on a directory that holds a dump or not
InitCommands ==
    /\ NoWork
    /\ http = <<>>
    /\ reader = <<>>
    /\ \E manifest_ \in BOOLEAN, format_version \in {1, 2, 3}, files \in BOOLEAN,
          store_ \in {"absent", "dumped", "mapped"} :
          /\ ~manifest_ => format_version = 1
          /\ cli = [command |-> "", database_id |-> "absent", src_all |-> FALSE,
                    auto_repair |-> TRUE, at |-> "main", exit |-> -1, log |-> <<>>,
                    src_requests |-> 0, dst_requests |-> 0,
                    dir |-> Dir(manifest_, format_version, files, store_),
                    dir0 |-> Dir(manifest_, format_version, files, store_)]

NextCommands ==
    \/ \E command \in {"dump", "upload", "repair", "run"},
          database_id \in {"absent", "blank", "ids"},
          src_all \in BOOLEAN, auto_repair \in BOOLEAN :
          Main(command, database_id, src_all, auto_repair)
    \/ \E outcome \in StepOutcomes, discovered \in BOOLEAN : Resolve(outcome, discovered)
    \/ \E outcome \in StepOutcomes : DumpStep(outcome)
    \/ UploadLoad
    \/ \E outcome \in StepOutcomes, saved \in BOOLEAN : UploadWork(outcome, saved)
    \/ \E outcome \in StepOutcomes : RepairStep(outcome)

SpecCommands == InitCommands /\ [][NextCommands]_vars

\* ------------------------------------------------- repair after an upload
\* an id as the command line, the store or the API writes it: with its hyphens
\* or without (lines 174-184 take the ids of the command line as they are
\* typed, lines 845 and 866 store the destination id of the API answer)
Form(id, hyphens) == IF hyphens THEN id ELSE NoHyphen(id)

\* the child databases of the parent after the upload of two schemas T1 and T2
\* that refer to each other: each has its relation property Rel and one
\* (T1, when twice: two) relation property that the API generated on it; a
\* third database of the user has only its title property
Uploaded(api, twice) ==
    LET Relation(name, dest) ==
            [name |-> name,
             payload |-> [type |-> "relation", config |-> [database_id |-> dest]]]
        dest_a == Form(DestIdPool[1], api)
        dest_b == Form(DestIdPool[2], api)
    IN <<[id |-> dest_a, title |-> <<"T1">>,
          properties |-> <<UserDb.properties[1], Relation("Rel", dest_b),
                           Relation("Related to T2", dest_b)>>
                         \o (IF twice THEN <<Relation("Related to T1", dest_b)>>
                             ELSE <<>>)],
         [id |-> dest_b, title |-> <<"T2">>,
          properties |-> <<UserDb.properties[1], Relation("Rel", dest_a),
                           Relation("Related to T1", dest_a)>>],
         [UserDb EXCEPT !.id = Form(DestIdPool[3], api), !.title = <<>>]>>

\* the state an upload leaves: the dump of the two schemas, whose ids are as
\* they were typed for the dump; the store with the schema map of the upload
\* (none when the dump had no store, format 1) and the destination databases
InitRepair ==
    /\ \E src \in BOOLEAN, dst \in BOOLEAN, mapped \in BOOLEAN :
          LET recs == <<Record(Form(SrcA, src), <<"T1">>,
                               FullProps(Form(SrcB, src), Form(SrcB, src)), <<>>),
                        Record(Form(SrcB, src), <<"T2">>,
                               FullProps(Form(SrcA, src), Form(SrcA, src)), <<>>)>>
          IN /\ records = recs
             /\ manifest = [format_version |-> IF mapped THEN DUMP_FORMAT_VERSION ELSE 1,
                            include_data |-> FALSE]
             /\ store =
                   IF mapped
                   THEN [exists |-> TRUE,
                         doc |-> DocSet(DumpIdMapping(recs), "database_mappings",
                                        <<[source_id |-> Form(SrcA, src),
                                           dest_id |-> Form(DestIdPool[1], dst)],
                                          [source_id |-> Form(SrcB, src),
                                           dest_id |-> Form(DestIdPool[2], dst)]>>)]
                   ELSE [exists |-> FALSE, doc |-> <<>>]
    /\ \E api \in BOOLEAN, twice \in BOOLEAN : dest_dbs = Uploaded(api, twice)
    /\ next_id = 3
    /\ dest_pages = <<>>
    /\ pc = "idle"
    /\ include_data = FALSE
    /\ id_mapping = <<>>
    /\ loaded = <<>>
    /\ source_to_destination_db_map = <<>>
    /\ existing_dbs_by_title = <<>>
    /\ idx = 0
    /\ warnings = <<>>
    /\ source_to_destination_page_map = <<>>
    /\ deferred_page_relations = <<>>
    /\ plan = <<>>
    /\ calls = <<>>
    /\ sent = {}
    /\ resent = {}
    /\ runs = 0
    /\ faults = 0
    /\ auto_props = 0
    /\ exit_code = 0
    /\ run = [command |-> "none", store_exists |-> FALSE, faults |-> 0,
              last |-> [command |-> "upload", exit_code |-> 0, completed |-> TRUE,
                        dest_ids |-> {}, created |-> {}]]
    /\ cli = <<>>
    /\ http = <<>>
    /\ reader = <<>>

\* the repair command, run once or again
NextRepair ==
    \/ RepairStart
    \/ \E outcome \in Outcomes : RepairFetch(outcome)
    \/ \E outcome \in Outcomes : RepairDelete(outcome)

SpecRepair == InitRepair /\ [][NextRepair]_vars

\* ------------------------------------------------------- paginated reads
MaxPages == 3

\* what the server answers to a request with the cursor start_cursor ("" is
\* no cursor: the first page): the results of the page the cursor names,
\* whether a page follows, and then the cursor of that page
Response(pages, start_cursor) ==
    LET at == IF start_cursor = "" THEN 1
              ELSE CHOOSE i \in 1..Len(pages) : start_cursor = "cursor-" \o ToString(i)
    IN [results |-> pages[at],
        has_more |-> at < Len(pages),
        next_cursor |-> IF at < Len(pages) THEN "cursor-" \o ToString(at + 1) ELSE ""]

Yields_everything(op, results) == results

\* lines 116-117, 130-132, 147-148: what the generator yields of one response;
\* search_databases yields the results whose object is "database"
Yields(op, results) ==
    IF op = "search_databases"
    THEN SelectSeq(results, LAMBDA result : result.object = "database")
    ELSE results

Continues_while_results(response) == response.results # <<>>

\* lines 118-119, 133-134, 149-150: `if not response.get("has_more"): break`
Continues(response) == response.has_more

\* lines 111-120, 123-135, 140-151: one pass of the loop `while True`: the
\* request carries start_cursor when cursor is set; an exception of request
\* leaves the generator
ReadPage(outcome) ==
    /\ reader.status = "reading"
    /\ LET response == Response(reader.pages, reader.cursor)
       IN reader' =
             IF outcome # "ok"
             THEN [reader EXCEPT !.requests = Append(@, reader.cursor),
                                 !.status = "raised"]
             ELSE [reader EXCEPT
                      !.requests = Append(@, reader.cursor),
                      !.responses = Append(@, response),
                      !.yielded = @ \o Yields(reader.op, response.results),
                      !.cursor = IF Continues(response) THEN response.next_cursor ELSE @,
                      !.status = IF Continues(response) THEN "reading" ELSE "done"]
    /\ UNCHANGED <<work, cli, http>>

\* a read begins (lines 110, 123, 139: cursor = None) on a server that holds
\* one to MaxPages pages of none, one or two results; a result is known by
\* the page and the place it is at, and is a database or another object
InitReader ==
    /\ NoWork
    /\ cli = <<>>
    /\ http = <<>>
    /\ \E op \in {"query_database", "search_databases", "get_block_children"},
          n \in 1..MaxPages :
          \E sizes \in [1..n -> 0..2], objects \in [1..2 -> {"database", "page"}] :
             reader = [op |-> op,
                       pages |-> [i \in 1..n |->
                                     [k \in 1..sizes[i] |->
                                         [id |-> <<i, k>>,
                                          object |-> IF op = "search_databases"
                                                     THEN objects[k] ELSE "page"]]],
                       cursor |-> "", requests |-> <<>>, responses |-> <<>>,
                       yielded |-> <<>>, status |-> "reading"]

NextReader == \E outcome \in {"ok", "api_error"} : ReadPage(outcome)

SpecReader == InitReader /\ [][NextReader]_vars

\* ------------------------------------------------------------ properties
\* the positions in calls of the calls of one operation
CallIdx(op) == {i \in 1..Len(calls) : calls[i].op = op}

\* the update_database calls that carry a property of the given type
UpdatesOf(type) ==
    {i \in CallIdx("update_database") : calls[i].payload.type = type}

\* the source schemas the running upload skipped: what it appended to
\* skipped_databases after loading the store
SkippedInRun ==
    LET now == DocGet(id_mapping, "skipped_databases", <<>>)
        before == DocGet(loaded, "skipped_databases", <<>>)
    IN {now[i] : i \in (Len(before) + 1)..Len(now)}

\* the deferred properties of a source schema under the run's schema map
DeferredOf(src) ==
    build_database_properties(source_databases(src).properties,
                              source_to_destination_db_map, TRUE,
                              all_db_properties).deferred

\* the source property behind an update_database call
SourcePropertyOf(c) ==
    LET props == source_databases(c.src).properties
    IN props[CHOOSE k \in 1..Len(props) : props[k].name = c.name]

\* C1: when an upload has completed and the command after it is an upload of
\* the same dump that completes as well, with no remote call failing, the second
\* upload issues no create_database call, skips every source schema, and leaves
\* the set of destination schemas as the first upload left it.
C1_SecondUploadCreatesNothing ==
    (/\ run.command = "upload"
     /\ run.last.command = "upload"
     /\ run.last.completed
     /\ pc = "done"
     /\ faults = 0)
    => /\ CallIdx("create_database") = {}
       /\ Range(source_database_ids) \subseteq SkippedInRun
       /\ DestIds = run.last.dest_ids

\* C2: in the call log of a run every create_database call comes before every
\* deferred update_database call, every relation update before every rollup
\* update, and every rollup update before every formula update.
C2_PhasesInOrder ==
    /\ \A i \in CallIdx("create_database") :
          \A j \in CallIdx("update_database") : i < j
    /\ \A i \in UpdatesOf("relation") :
          \A j \in UpdatesOf("rollup") \cup UpdatesOf("formula") : i < j
    /\ \A i \in UpdatesOf("rollup") : \A j \in UpdatesOf("formula") : i < j
    /\ CallIdx("update_database")
          = UpdatesOf("relation") \cup UpdatesOf("rollup") \cup UpdatesOf("formula")

\* an upload of two created schemas has ended after relation updates of both
\* schemas, then a rollup update of the first schema, then a formula update
C2_Witness ==
    /\ run.command = "upload"
    /\ pc = "done"
    /\ Cardinality(CallIdx("create_database")) = 2
    /\ \E i \in UpdatesOf("relation"), j \in UpdatesOf("rollup") :
          /\ calls[i].src = source_database_ids[2]
          /\ calls[j].src = source_database_ids[1]
    /\ UpdatesOf("formula") # {}

C4_SkippedGetNoDeferred ==
    \A i \in CallIdx("update_database") : calls[i].src \notin SkippedInRun

\* an upload has ended that skipped a schema with deferred properties and
\* applied the deferred properties of the schema it created
C4_Witness ==
    /\ run.command = "upload"
    /\ pc = "done"
    /\ \E s \in SkippedInRun : DeferredOf(s) # <<>>
    /\ CallIdx("update_database") # {}

\* C5: when an upload has completed, every schema it created has received, for
\* each of its deferred relation, rollup and formula properties, exactly one
\* update_database call, whatever the store held when the upload started.
C5_CreatedSchemasGetDeferred ==
    (run.command = "upload" /\ pc = "done")
    => \A i \in CallIdx("create_database") :
          \A k \in 1..Len(DeferredOf(calls[i].src)) :
              Cardinality({j \in UpdatesOf(DeferredOf(calls[i].src)[k].payload.type) :
                              /\ calls[j].src = calls[i].src
                              /\ calls[j].dest = calls[i].dest
                              /\ calls[j].name = DeferredOf(calls[i].src)[k].name}) = 1

\* the calls that come after the save of the schema map
AfterSaveCalls ==
    CallIdx("update_database") \cup CallIdx("create_page") \cup CallIdx("update_page")

\* the running upload has written the store
SavedInRun ==
    /\ run.command = "upload"
    /\ store.exists
    /\ DocGet(store.doc, "updated_at", 0) = runs

\* C6: once an upload has issued a deferred update_database call or a
\* create_page call, the store on disk maps every schema the run created or
\* skipped to its destination schema, and it still does after a later call of
\* the run has failed.
C6_MappingsSavedBeforeDeferred ==
    (run.command = "upload" /\ AfterSaveCalls # {})
    => /\ store.exists
       /\ "database_mappings" \in DOMAIN store.doc
       /\ \A i \in CallIdx("create_database") :
             [source_id |-> calls[i].src, dest_id |-> calls[i].dest]
                \in Range(store.doc.database_mappings)
       /\ \A s \in SkippedInRun :
             /\ MapHas(store.doc.database_mappings, s)
             /\ MapGet(store.doc.database_mappings, s)
                   = MapGet(source_to_destination_db_map, s)

\* an upload that created one schema and skipped the other has been ended by
\* a transport error of a deferred update
C6_Witness ==
    /\ run.command = "upload"
    /\ pc = "failed"
    /\ SkippedInRun # {}
    /\ CallIdx("create_database") # {}
    /\ \E i \in CallIdx("update_database") : calls[i].result = "transport_error"

\* C7: over the commands of a behaviour no deferred property of a source schema
\* is submitted twice to the same destination schema.
C7_DeferredAtMostOnce == resent = {}

\* a second upload has completed after a first one that submitted deferred
\* properties to the schemas the second one finds at the destination
C7_Witness ==
    /\ run.command = "upload"
    /\ run.last.command = "upload"
    /\ run.last.completed
    /\ pc = "done"
    /\ CallIdx("update_database") = {}
    /\ \E k \in sent : /\ MapHas(source_to_destination_db_map, k.src)
                       /\ MapGet(source_to_destination_db_map, k.src) = k.dest

DescriptorKeys == {"relation_properties", "rollup_properties", "formula_properties"}

\* the documents a and b agree on the key k: both lack it, or both hold the
\* same value
SameEntry(a, b, k) ==
    /\ (k \in DOMAIN a) = (k \in DOMAIN b)
    /\ k \in DOMAIN a => a[k] = b[k]

\* C9: during and after an upload the relation, rollup and formula descriptor
\* lists of the document in memory and of the store on disk are the ones that
\* were loaded.
C9_DescriptorsKept ==
    run.command = "upload"
    => \A k \in DescriptorKeys :
          /\ SameEntry(id_mapping, loaded, k)
          /\ store.exists => SameEntry(store.doc, loaded, k)

\* an upload that loaded descriptors of the three kinds has saved the store
C9_Witness ==
    /\ SavedInRun
    /\ \A k \in DescriptorKeys : DocGet(loaded, k, <<>>) # <<>>

\* C10: a command that finds no id_mapping.json works on a document with empty
\* schema mappings and empty relation descriptors, and it ends with a failure
\* only when a remote call of its own has failed.
C10_AbsentStoreIsEmpty ==
    (run.command \in {"upload", "repair"} /\ ~run.store_exists)
    => /\ "database_mappings" \in DOMAIN loaded
       /\ loaded.database_mappings = <<>>
       /\ "relation_properties" \in DOMAIN loaded
       /\ loaded.relation_properties = <<>>
       /\ pc = "failed" => faults > run.faults

\* an upload that found no store has completed and has written one
C10_Witness ==
    /\ run.command = "upload"
    /\ ~run.store_exists
    /\ pc = "done"
    /\ store.exists
    /\ CallIdx("create_database") # {}

\* C11: no step of a repair command, on either path and whatever the outcome
\* of its deletions, changes the mapping store or the dump (manifest, records).
C11_RepairWritesNothing ==
    [][run'.command = "repair"
          => /\ store' = store
             /\ manifest' = manifest
             /\ records' = records]_vars

\* a repair on the id-mapping path has ended after a deletion that succeeded,
\* with the store that an upload wrote still on disk
C11_Witness ==
    /\ run.command = "repair"
    /\ pc = "done"
    /\ store.exists
    /\ DocGet(store.doc, "database_mappings", <<>>) # <<>>
    /\ \E i \in CallIdx("delete_properties") : calls[i].result = "ok"

RECURSIVE PageIdsFrom(_)
\* the ids of the source records of the dump from record file i on, in order
PageIdsFrom(i) ==
    IF i > Len(records) THEN <<>>
    ELSE [j \in 1..Len(records[i].pages) |-> records[i].pages[j].id] \o PageIdsFrom(i + 1)

\* the source record ids of the create_page calls issued so far, in order
CreatedPageIds ==
    LET made == SeqFilter([i \in 1..Len(calls) |-> i], CallIdx("create_page"))
    IN [k \in 1..Len(made) |-> calls[made[k]].src]

\* the record pass of the running upload is over
RecordPassOver ==
    /\ run.command = "upload"
    /\ include_data /\ manifest.include_data
    /\ pc \in {"page_relations", "done"}

\* C12: a create_page call that ends in an API error does not end the run; when
\* the record pass is over one create_page call has been issued for every
\* source record of every schema, in dump order; and the record map holds
\* exactly the source records whose create_page call succeeded.
C12_FailedRecordBlocksNothing ==
    run.command = "upload"
    => /\ RecordPassOver => CreatedPageIds = PageIdsFrom(1)
       /\ DOMAIN source_to_destination_page_map
             = {calls[i].src : i \in {j \in CallIdx("create_page") : calls[j].result = "ok"}}
       /\ (/\ calls # <<>>
           /\ calls[Len(calls)].op = "create_page"
           /\ calls[Len(calls)].result = "api_error") => pc # "failed"

\* the create_page call of the first record of the first schema ended in an API
\* error, and its sibling and the record of the second schema were created
C12_Witness ==
    /\ RecordPassOver
    /\ \E i, j, k \in CallIdx("create_page") :
          /\ i < j /\ j < k
          /\ calls[i].result = "api_error"
          /\ calls[i].src = records[1].pages[1].id
          /\ calls[j].result = "ok" /\ calls[j].src = records[1].pages[2].id
          /\ calls[k].result = "ok" /\ calls[k].src = records[2].pages[1].id

\* the entry of deferred_page_relations behind an update_page call
DeferredEntryOf(c) ==
    deferred_page_relations[CHOOSE k \in 1..Len(deferred_page_relations) :
                               deferred_page_relations[k].page = c.dest]

\* C13: in every update_page call each property carries, in source order, the
\* destination ids the record map gives for the references of the source record
\* that the map resolves, and nothing else; a reference the map does not hold
\* is left out. No destination record gets a second update_page call, and a
\* completed upload has made one call for every record with relations.
C13_RelationUpdatesResolved ==
    run.command = "upload"
    => /\ \A i \in CallIdx("update_page") :
             LET sent_update == calls[i].payload
                 source_update == DeferredEntryOf(calls[i]).update
             IN /\ Len(sent_update) = Len(source_update)
                /\ \A k \in 1..Len(sent_update) :
                      LET refs == source_update[k].relation
                          known == {j \in 1..Len(refs) :
                                       refs[j] \in DOMAIN source_to_destination_page_map}
                      IN /\ sent_update[k].name = source_update[k].name
                         /\ Len(sent_update[k].relation) = Cardinality(known)
                         /\ \A n \in 1..Len(sent_update[k].relation) :
                               \E j \in known :
                                  /\ sent_update[k].relation[n]
                                        = source_to_destination_page_map[refs[j]]
                                  /\ Cardinality({m \in known : m < j}) = n - 1
       /\ \A i, j \in CallIdx("update_page") : calls[i].dest = calls[j].dest => i = j
       /\ pc = "done" => Cardinality(CallIdx("update_page")) = Len(deferred_page_relations)

\* an upload has completed after an update_page call for a record whose source
\* refers to a migrated record and to a record that is not in the dump
C13_Witness ==
    /\ run.command = "upload"
    /\ pc = "done"
    /\ \E i \in CallIdx("update_page") :
          /\ calls[i].result = "ok"
          /\ \E k \in 1..Len(calls[i].payload) :
                /\ Len(calls[i].payload[k].relation) = 1
                /\ Len(DeferredEntryOf(calls[i]).update[k].relation) = 2

\* the property names of the source schema src of the dump
SourceNames(src) ==
    {source_databases(src).properties[k].name :
        k \in 1..Len(source_databases(src).properties)}

\* the running command is a repair on the id-mapping path that has ended
RepairByIdsDone ==
    /\ run.command = "repair"
    /\ pc = "done"
    /\ DbMap(id_mapping) # <<>>

\* no two entries of the schema map share a destination schema
OneToOne(mappings) ==
    \A i, j \in 1..Len(mappings) : mappings[i].dest_id = mappings[j].dest_id => i = j

\* the property name was part of a deletion update sent to the schema dest
InDeletion(dest, name) ==
    \E i \in CallIdx("delete_properties") :
        calls[i].dest = dest /\ name \in Range(calls[i].payload)

\* C14: when a repair on the id-mapping path has ended, every relation property
\* that is still on a destination schema the stored schema map associates with
\* a source schema of the dump, whose name starts with "Related to " and is not
\* a property name of that source schema, was part of a deletion update for the
\* schema (so it is there only because that update failed).  Stated for a
\* dump that wrote its descriptors to the store (format 2) and a schema map that
\* gives every source schema a destination schema of its own, with no remote
\* call failing.
C14_GeneratedRelationsDeleted ==
    (/\ RepairByIdsDone
     /\ faults = 0
     /\ manifest.format_version = DUMP_FORMAT_VERSION
     /\ OneToOne(DocGet(id_mapping, "database_mappings", <<>>)))
    => \A d \in 1..Len(dest_dbs) :
          \A e \in Range(DocGet(id_mapping, "database_mappings", <<>>)) :
             (e.dest_id = dest_dbs[d].id /\ e.source_id \in Range(source_database_ids))
             => \A k \in 1..Len(dest_dbs[d].properties) :
                   LET q == dest_dbs[d].properties[k]
                   IN (/\ q.payload.type = "relation"
                       /\ StartsWithRelatedTo(q.name)
                       /\ q.name \notin SourceNames(e.source_id))
                      => InDeletion(dest_dbs[d].id, q.name)

\* the running command is a repair on the title path
RepairByTitles ==
    /\ run.command = "repair"
    /\ DbMap(id_mapping) = <<>>

\* the source schemas a destination schema corresponds to: on the id-mapping
\* path by the stored schema map, on the title path by its title
SourcesOf(dest) ==
    IF RepairByTitles
    THEN {src \in Range(source_database_ids) :
             /\ get_database_title_plain(source_databases(src)) # ""
             /\ get_database_title_plain(source_databases(src))
                   = get_database_title_plain(dest_dbs[DestIndex(dest)])}
    ELSE {e.source_id : e \in {m \in Range(DocGet(id_mapping, "database_mappings", <<>>)) :
                                  m.dest_id = dest /\ m.source_id \in Range(source_database_ids)}}

\* no deletion update of the repair names a property whose name is a property
\* name of a source schema the destination schema corresponds to
OriginalNamesKept ==
    \A i \in CallIdx("delete_properties") :
       \A src \in SourcesOf(calls[i].dest) :
          Range(calls[i].payload) \cap SourceNames(src) = {}

\* C15: a repair on the title fallback path, with no failed call, never marks
\* for deletion a destination property whose name is a property name of the
\* source schema with the same title (the id-mapping path with a one-to-one
\* schema map keeps them: lines 1144-1150 compare with the source names).
C15_OriginalNamesKept ==
    (RepairByTitles /\ faults = 0) => OriginalNamesKept

\* the property list whose id-to-name table applies to a reference token: the
\* owning schema's for the all-zero schema id, else that of the in-scope
\* schema with the token's schema id, if any
TableProps(tok, properties, all_dbs) ==
    IF NoHyphen(tok.db) = NoHyphen(ZERO_DB_ID) THEN properties
    ELSE IF \E k \in 1..Len(all_dbs) : NoHyphen(all_dbs[k].id) = NoHyphen(tok.db)
    THEN all_dbs[CHOOSE k \in 1..Len(all_dbs) :
                    NoHyphen(all_dbs[k].id) = NoHyphen(tok.db)].properties
    ELSE <<>>

\* the properties a token resolves to: its property id, raw or unquoted, is
\* the id of the property, raw or unquoted
Resolving(tok, props) ==
    {j \in 1..Len(props) :
        /\ props[j].id # ""
        /\ {props[j].id, Unquote(props[j].id)} \cap {tok.pid, Unquote(tok.pid)} # {}}

\* out is expression with every resolving token replaced by the prop("name")
\* of a property it resolves to and everything else as it was
Rewritten(expression, out, properties, all_dbs) ==
    /\ Len(out) = Len(expression)
    /\ \A i \in 1..Len(expression) :
          IF expression[i].k # "tok" THEN out[i] = expression[i]
          ELSE LET props == TableProps(expression[i], properties, all_dbs)
               IN IF Resolving(expression[i], props) = {} THEN out[i] = expression[i]
                  ELSE \E j \in Resolving(expression[i], props) :
                          out[i] = PropRef(EscapeQuotes(props[j].name))

\* C16: the expression of every formula update of an upload is the source
\* expression with each token that resolves in the applicable table (the
\* owning schema's, or the dumped schema's the token names) replaced by
\* prop("<name>") and every other piece, unresolvable tokens included, as it
\* was; so is the converted expression of every formula descriptor the dump
\* command writes, where only the owning schema's table applies.
C16_FormulaTokensRewritten ==
    /\ run.command = "upload"
       => \A i \in UpdatesOf("formula") :
             Rewritten(SourcePropertyOf(calls[i]).expression,
                       calls[i].payload.config.expression,
                       source_databases(calls[i].src).properties, all_db_properties)
    /\ run.command = "dump"
       => \A i \in 1..Len(store.doc.formula_properties) :
             LET d == store.doc.formula_properties[i]
             IN Rewritten(d.original_expression, d.expression,
                          source_databases(d.source_db_id).properties, <<>>)

\* a formula update whose expression has a reference by name to a property of
\* the owning schema, two to a property of the other schema (one found by the
\* unquoted id), and the two unresolvable tokens unchanged
C16_Witness ==
    /\ run.command = "upload"
    /\ \E i \in UpdatesOf("formula") :
          calls[i].payload.config.expression
             = <<Text("1+"), PropRef("Roll"), PropRef("Tags"), PropRef("Tags"),
                 Tok("c", ExternalDb), Tok("gone", ZERO_DB_ID),
                 Tok("ro", ExternalDb), Tok("c", ZERO_DB_ID), Tok("f", SrcA)>>

\* the title-typed entries of a property dict
TitlesOf(d) == {k \in 1..Len(d) : d[k].payload.type = "title"}

NoSourceTitle(src) ==
    \A k \in 1..Len(source_databases(src).properties) :
       source_databases(src).properties[k].type # "title"

\* C17: the property set of every create_database call of an upload has
\* exactly one title-typed property; when the source schema has no title
\* property, that property is named "Name" and the warning of the fallback is
\* recorded for the schema.
C17_ExactlyOneTitle ==
    run.command = "upload"
    => \A i \in CallIdx("create_database") :
          /\ Cardinality(TitlesOf(calls[i].payload)) = 1
          /\ NoSourceTitle(calls[i].src)
             => /\ \A k \in TitlesOf(calls[i].payload) : calls[i].payload[k].name = "Name"
                /\ \E w \in 1..Len(warnings) :
                      warnings[w].w = "no_title" /\ warnings[w].src = calls[i].src

\* a schema without a title property has been created, and one with a title
C17_Witness ==
    /\ run.command = "upload"
    /\ \E i \in CallIdx("create_database") :
          NoSourceTitle(calls[i].src) /\ calls[i].result = "ok"
    /\ \E i \in CallIdx("create_database") :
          ~NoSourceTitle(calls[i].src) /\ calls[i].result = "ok"

DeferredTypes == {"relation", "rollup", "formula"}

\* immediate and deferred are the two sets build_database_properties returns
\* for the properties props under the schema map m: each property that
\* translates is, with its translation, in the deferred set and not in the
\* immediate one when it is a relation, rollup or formula, and in the
\* immediate set and not in the deferred one otherwise
Classified(props, m, immediate, deferred) ==
    /\ DictKeys(immediate) \cap DictKeys(deferred) = {}
    /\ \A k \in 1..Len(props) :
          property_schema_config(props[k], m).ok
          => LET name == props[k].name
                 payload == Payload(props[k], props, m, all_db_properties)
             IN IF props[k].type \in DeferredTypes
                THEN /\ name \in DictKeys(deferred)
                     /\ DictGet(deferred, name).payload.type = payload.type
                     /\ DictGet(deferred, name).payload = payload
                     /\ name \notin DictKeys(immediate)
                ELSE /\ name \in DictKeys(immediate)
                     /\ DictGet(immediate, name).payload.type = payload.type
                     /\ name \notin DictKeys(deferred)

\* C18: for every schema an upload creates, the sets that
\* build_database_properties returns with deferral enabled hold every
\* translated relation, rollup and formula property in the deferred set and
\* every other translated property in the immediate set, no name in both; and
\* the create_database call, which carries the immediate set, has no relation,
\* rollup or formula property.
C18_DeferredApartFromImmediate ==
    run.command = "upload"
    => \A i \in CallIdx("create_database") :
          LET props == source_databases(calls[i].src).properties
              built == build_database_properties(props, source_to_destination_db_map,
                                                 TRUE, all_db_properties)
          IN /\ calls[i].payload = built.immediate
             /\ Classified(props, source_to_destination_db_map,
                           built.immediate, built.deferred)
             /\ \A k \in 1..Len(calls[i].payload) :
                   calls[i].payload[k].payload.type \notin DeferredTypes

\* C19: every relation property an upload applies, whether its source has
\* the mode single_property or dual_property, is sent as a single_property
\* relation to its target: the configuration has the members database_id and
\* single_property and no other, so no dual_property setting.
C19_RelationsSingleProperty ==
    run.command = "upload"
    => \A i \in UpdatesOf("relation") :
          /\ SourcePropertyOf(calls[i]).rel_type \in {"single_property", "dual_property"}
          /\ DOMAIN calls[i].payload.config = {"database_id", "single_property"}
          /\ calls[i].payload.config.single_property = EmptyCfg

\* one relation update from a dual_property source relation and one from a
\* single_property source relation have been made
C19_Witness ==
    /\ run.command = "upload"
    /\ \E i \in UpdatesOf("relation") :
          SourcePropertyOf(calls[i]).rel_type = "dual_property" /\ calls[i].result = "ok"
    /\ \E i \in UpdatesOf("relation") :
          SourcePropertyOf(calls[i]).rel_type = "single_property" /\ calls[i].result = "ok"

\* the select and multi_select entries of a create_database call
SelectsOf(c) ==
    {k \in 1..Len(c.payload) : c.payload[k].payload.type \in {"select", "multi_select"}}

\* the options of the source property an entry of a create_database call
\* was translated from
SourceOptions(c, k) ==
    DictGet(source_databases(c.src).properties, c.payload[k].name).options

\* the number of leading source positions the cap admits
Admitted(options) ==
    IF Len(options) < MAX_SELECT_OPTIONS THEN Len(options) ELSE MAX_SELECT_OPTIONS

\* C20 as stated: the option list of every select and multi_select property
\* of a create_database call has one entry for each of the first 100 source
\* options, in source order, with its name and its color, and none for the
\* options beyond.
C20_FirstOptionsCarried ==
    run.command = "upload"
    => \A i \in CallIdx("create_database") : \A k \in SelectsOf(calls[i]) :
          LET options == SourceOptions(calls[i], k)
              out == calls[i].payload[k].payload.config.options
          IN /\ Len(out) = Admitted(options)
             /\ \A j \in 1..Len(out) :
                   /\ out[j].name = options[j].name
                   /\ options[j].color # "" => out[j].color = options[j].color

\* C20, amended: the option list has at most 100 entries and consists, in
\* source order, of the {name, color} of the source options within the first
\* 100 positions that have a name, the color being "default" where the source
\* option has none; no option beyond position 100 appears.
C20_NamedFirstOptionsCarried ==
    run.command = "upload"
    => \A i \in CallIdx("create_database") : \A k \in SelectsOf(calls[i]) :
          LET options == SourceOptions(calls[i], k)
              out == calls[i].payload[k].payload.config.options
          IN /\ Len(out) <= MAX_SELECT_OPTIONS
             /\ out = SelectSeq([j \in 1..Admitted(options) |-> Sanitized(options[j])],
                                HasName)
             /\ \A j \in (Admitted(options) + 1)..Len(options) :
                   \A n \in 1..Len(out) : out[n].name # options[j].name

\* a schema has been created whose multi_select has more source options than
\* the cap and is sent with as many options as the cap
C20_Witness ==
    /\ run.command = "upload"
    /\ \E i \in CallIdx("create_database") :
          /\ calls[i].result = "ok"
          /\ \E k \in SelectsOf(calls[i]) :
                /\ Len(SourceOptions(calls[i], k)) > MAX_SELECT_OPTIONS
                /\ Len(calls[i].payload[k].payload.config.options) = MAX_SELECT_OPTIONS

\* the response the last attempt received
LastResponse == http.log[Len(http.log)]

\* C24: a request makes at most MAX_RETRIES attempts and is over with the
\* last of them; every response before the last one was a 429; it returns
\* the body of the first response with a status below 400 ({} for 204);
\* it raises NotionAPIError at once on a status of 400 or above other than
\* 429, and on a 429 only when that was the answer to attempt MAX_RETRIES.
C24_RequestBounded ==
    /\ http.attempt <= MAX_RETRIES
    /\ http.attempt = MAX_RETRIES => http.result # "running"
    /\ \A k \in 1..(Len(http.log) - 1) : http.log[k].status = 429
    /\ http.result = "running"
       => /\ Len(http.log) = http.attempt
          /\ Len(http.log) > 0 => LastResponse.status = 429
    /\ http.result = "returned"
       => /\ Len(http.log) = http.attempt
          /\ LastResponse.status < 400
          /\ http.value = IF LastResponse.status = 204 THEN "{}" ELSE LastResponse.body
    /\ http.result = "NotionAPIError"
       => /\ Len(http.log) = http.attempt
          /\ LastResponse.status >= 400
          /\ LastResponse.status = 429 => http.attempt = MAX_RETRIES
    /\ (Len(http.log) > 0 /\ LastResponse.status >= 400 /\ LastResponse.status # 429)
       => http.result = "NotionAPIError"
    /\ (Len(http.log) > 0 /\ LastResponse.status < 400) => http.result = "returned"

\* rate-limited on every attempt, the request raised NotionAPIError on the
\* answer to the last one
C24_Witness ==
    /\ http # <<>>
    /\ http.attempt = MAX_RETRIES
    /\ \A k \in 1..MAX_RETRIES : http.log[k].status = 429
    /\ http.result = "NotionAPIError"

\* the wait before each retry is the Retry-After value when that is a number
NumericWaits ==
    \A k \in 1..Len(http.waits) :
       IsDigit(http.log[k].retry_after)
       => http.waits[k] = ToInt(http.log[k].retry_after)

\* C30 as stated: the waits after rate-limit responses without a numeric
\* Retry-After grow exponentially with the attempt number (each longer than
\* the one before, successive ones in a constant ratio), and the wait after
\* one with a numeric Retry-After is that number.
C30_WaitsExponential ==
    /\ NumericWaits
    /\ \A k \in 1..(Len(http.waits) - 2) :
          (\A j \in k..(k + 2) : ~IsDigit(http.log[j].retry_after))
          => /\ http.waits[k] < http.waits[k + 1]
             /\ http.waits[k + 1] * http.waits[k + 1] = http.waits[k] * http.waits[k + 2]

\* C30, amended: the wait after a rate-limit response without a numeric
\* Retry-After is the attempt number in seconds (1, 2, 3, 4: it grows by one
\* second per attempt, not exponentially), and the wait after one with a
\* numeric Retry-After is that number; the answer to the last permitted
\* attempt is not waited for.
C30_WaitsLinear ==
    /\ NumericWaits
    /\ Len(http.waits) <= MAX_RETRIES - 1
    /\ \A k \in 1..Len(http.waits) :
          ~IsDigit(http.log[k].retry_after) => http.waits[k] = k

\* four retries: after no header, a date, a number and no header again
C30_Witness ==
    /\ http # <<>>
    /\ http.waits = <<1, 2, 0, 4>>
    /\ http.log[1].retry_after = "" /\ http.log[2].retry_after # ""
    /\ http.log[3].retry_after = "0" /\ http.log[4].retry_after = ""

\* the command has ended and this is the step it ended in
LastStep == cli.log[Len(cli.log)]

\* C21: a dump or run command given no schema id (--database-id absent or
\* without an id in its value) and not told to discover the schemas ends
\* with exit code 2, having made no API request.
C21_NoSchemaIdExitsTwo ==
    (/\ cli.at = "exited"
     /\ cli.command \in {"dump", "run"}
     /\ cli.database_id # "ids"
     /\ ~cli.src_all)
    => /\ cli.exit = 2
       /\ cli.src_requests = 0 /\ cli.dst_requests = 0

\* the steps a command consists of, in order
StepsOf(command, auto_repair) ==
    CASE command = "dump" -> <<"resolve", "dump">>
      [] command = "upload" -> <<"upload">>
      [] command = "repair" -> <<"repair">>
      [] command = "run" -> <<"resolve", "dump", "upload">>
                            \o (IF auto_repair THEN <<"repair">> ELSE <<>>)

\* C22: a command that has ended after its arguments were accepted has gone
\* through its steps in order, every step before the last one completed; it
\* returned 0 exactly when the last step completed too, and then no step was
\* left; it returned 1 when the last step raised an API error, a transport
\* error or a dump format error. So in run no upload follows a failed dump
\* and no repair follows a failed upload.
C22_ExitCodes ==
    (cli.at = "exited" /\ LastStep.step # "parse")
    => LET steps == StepsOf(cli.command, cli.auto_repair)
       IN /\ Len(cli.log) <= Len(steps)
          /\ \A k \in 1..Len(cli.log) : cli.log[k].step = steps[k]
          /\ \A k \in 1..(Len(cli.log) - 1) : cli.log[k].outcome = "ok"
          /\ cli.exit = 0 <=> LastStep.outcome = "ok"
          /\ cli.exit = 0 => Len(cli.log) = Len(steps)
          /\ LastStep.outcome \in Caught => cli.exit = 1

\* a run whose dump completed and whose upload failed on an API error
\* returned 1 without the repair
C22_Witness ==
    /\ cli # <<>>
    /\ cli.at = "exited" /\ cli.command = "run" /\ cli.auto_repair
    /\ cli.exit = 1
    /\ LastStep = [step |-> "upload", outcome |-> "NotionAPIError"]
    /\ cli.log[2] = [step |-> "dump", outcome |-> "ok"]

\* what load_dump refuses: no manifest, a format version other than 1 and 2,
\* or a schema file that the manifest names and that does not exist
Refused(dir) ==
    \/ ~dir.manifest
    \/ dir.format_version # 1 /\ dir.format_version # 2
    \/ ~dir.files

\* C23: an upload started on a directory that load_dump refuses ends with a
\* dump format error (exit code 1) without a request to the destination and
\* with the directory, the mapping store included, as it was.
C23_FormatErrorFirst ==
    (/\ cli.command = "upload"
     /\ cli.at # "upload"
     /\ Refused(cli.dir0))
    => /\ cli.at = "exited"
       /\ LastStep = [step |-> "upload", outcome |-> "DumpFormatError"]
       /\ cli.exit = 1
       /\ cli.dst_requests = 0
       /\ cli.dir = cli.dir0

\* an upload refused for the format version of a manifest that exists and
\* whose files exist, beside a store with a schema map
C23_Witness ==
    /\ cli # <<>>
    /\ cli.command = "upload" /\ cli.at = "exited"
    /\ cli.dir0 = Dir(TRUE, 3, TRUE, "mapped")
    /\ LastStep.outcome = "DumpFormatError"

\* the Phase 1 calls made before call i for the relation the rollup of call i
\* is over, on the same destination schema
RelationCallsFor(i) ==
    {j \in UpdatesOf("relation") :
        /\ j < i
        /\ calls[j].dest = calls[i].dest
        /\ calls[j].name = calls[i].payload.config.relation_property_name}

\* the destination schema of call i has a relation property of that name
HasRelationFor(i) ==
    \E k \in 1..Len(dest_dbs[DestIndex(calls[i].dest)].properties) :
       LET p == dest_dbs[DestIndex(calls[i].dest)].properties[k]
       IN /\ p.name = calls[i].payload.config.relation_property_name
          /\ p.payload.type = "relation"

IsUpdateDatabase(c) == c.op = "update_database"

\* the property updates of the three deferred phases, in the order of the code
DeferredPlan ==
    Plan("phase1", source_to_destination_db_map, id_mapping, include_data,
         deferred_page_relations)
    \o Plan("phase2", source_to_destination_db_map, id_mapping, include_data,
            deferred_page_relations)
    \o Plan("phase3", source_to_destination_db_map, id_mapping, include_data,
            deferred_page_relations)

\* the calls made are the planned ones, one for one
MadeAsPlanned(made, planned) ==
    /\ Len(made) = Len(planned)
    /\ \A k \in 1..Len(made) :
          /\ made[k].src = planned[k].src
          /\ made[k].dest = planned[k].dest
          /\ made[k].name = planned[k].name
          /\ made[k].payload = planned[k].payload

\* control of the upload is past the deferred phases
PhasesOver == run.command = "upload" /\ pc \in {"pages", "page_relations", "done"}

\* C26: every property update of a deferred phase that ended in an API error
\* has its warning; such a call does not end the run; and when the phases
\* are over every property of every phase and schema has been submitted, in
\* order, whichever of the calls failed.
C26_FailedPropertySkipped ==
    run.command = "upload"
    => /\ \A i \in CallIdx("update_database") :
             calls[i].result = "api_error"
             <=> \E w \in 1..Len(warnings) :
                    warnings[w] = [w |-> "apply_failed", name |-> calls[i].name,
                                   src |-> calls[i].src]
       /\ (/\ calls # <<>>
           /\ calls[Len(calls)].op = "update_database"
           /\ calls[Len(calls)].result = "api_error") => pc # "failed"
       /\ PhasesOver => MadeAsPlanned(SelectSeq(calls, IsUpdateDatabase), DeferredPlan)

\* an upload that ended with exit code 0 although the relation update of a
\* schema failed: the rollup and the formula of that schema and the
\* properties of the other schema were submitted after it
C26_Witness ==
    /\ run.command = "upload" /\ pc = "done" /\ exit_code = 0
    /\ \E i, j, k, l \in CallIdx("update_database") :
          /\ i < j /\ j < k /\ k < l
          /\ calls[i].result = "api_error" /\ calls[i].payload.type = "relation"
          /\ calls[j].src # calls[i].src /\ calls[j].payload.type = "relation"
          /\ calls[k].src = calls[i].src /\ calls[k].payload.type = "rollup"
          /\ calls[l].src = calls[i].src /\ calls[l].payload.type = "formula"


\* the update_page call c carries at least one resolved reference
CarriesReference(c) ==
    \E k \in 1..Len(c.payload) : c.payload[k].relation # <<>>

\* C27: in an upload, every update_page call of the second pass of the record
\* migrator carries at least one reference that the record map resolved: a
\* record none of whose references resolve receives no update call.
C27_UpdateOnlyIfResolved ==
    run.command = "upload"
    => \A i \in CallIdx("update_page") : CarriesReference(calls[i])


\* the path of the repair that is running or has run: lines 1090-1092
RepairPath == IF DbMap(id_mapping) # <<>> THEN "repair_ids" ELSE "repair_titles"

\* the deletions that the destination schemas, as they are now, are marked for
MarkedNow == RepairPlan(RepairPath, id_mapping)

\* the step appends a call c whose schema had no call in this run and that
\* names exactly the properties the schema is marked for, which are some
BatchedDeletion(c, marked) ==
    /\ c.op = "delete_properties"
    /\ \A i \in 1..Len(calls) : calls[i].dest # c.dest
    /\ c.payload # <<>>
    /\ \E k \in 1..Len(marked) : marked[k].dest = c.dest /\ marked[k].to_delete = c.payload

\* a repair that has returned left marked properties only on schemas whose
\* deletion call was answered with an API error
OnlyFailedLeft(marked) ==
    \A k \in 1..Len(marked) :
       \E i \in CallIdx("delete_properties") :
          calls[i].dest = marked[k].dest /\ calls[i].result = "api_error"

\* C28: every call of a repair run is a deletion call for a schema that had
\* none before in the run, and it names exactly the properties that schema
\* is marked for, of which there is at least one; a deletion call answered
\* with an API error does not fail the run, and when the run has returned
\* every schema still marked for deletions is one whose call failed that way.
C28_OneBatchedDeletionPerSchema ==
    /\ [][(run.command = "repair" /\ Len(calls') = Len(calls) + 1)
             => BatchedDeletion(calls'[Len(calls')], MarkedNow)]_vars
    /\ [](run.command = "repair"
          => /\ (/\ calls # <<>>
                 /\ calls[Len(calls)].result = "api_error") => pc # "failed"
             /\ pc = "done" => OnlyFailedLeft(MarkedNow))

\* a repair has returned after two deletion calls, the first answered with an
\* API error and the second carried out on another schema
C28_Witness ==
    /\ run.command = "repair"
    /\ pc = "done"
    /\ Len(calls) = 2
    /\ calls[1].op = "delete_properties" /\ calls[1].result = "api_error"
    /\ calls[2].op = "delete_properties" /\ calls[2].result = "ok"
    /\ calls[1].dest # calls[2].dest


\* the entries of the stored schema map whose destination id is, hyphens
\* apart, the id of the destination schema dest
MappedTo(dest) ==
    {e \in Range(DocGet(id_mapping, "database_mappings", <<>>)) :
        /\ e.source_id # "" /\ e.dest_id # ""
        /\ NoHyphen(e.dest_id) = NoHyphen(dest)}

\* the lookup of lines 1135-1136 finds, for the destination schema dest, the
\* source schema of the entry e
Matched(dest, e, dest_to_source) ==
    /\ NoHyphen(dest) \in DOMAIN dest_to_source
    /\ dest_to_source[NoHyphen(dest)] = NoHyphen(e.source_id)

\* C29: in a repair on the id-mapping path, every destination schema that an
\* entry of the stored schema map names is matched to the source schema of
\* that entry, whether the ids of the entry and the id the API gives for the
\* schema are written with hyphens or without.
C29_MatchedWhateverTheHyphens ==
    (run.command = "repair" /\ RepairPath = "repair_ids")
    => \A i \in 1..Len(dest_dbs) :
          \A e \in MappedTo(dest_dbs[i].id) :
             Matched(dest_dbs[i].id, e, DestToSource(DbMap(id_mapping)))


RECURSIVE Flatten(_, _)
\* the results of the pages i and after, in order
Flatten(pages, i) ==
    IF i > Len(pages) THEN <<>> ELSE pages[i] \o Flatten(pages, i + 1)

\* every request after the first carries the cursor of the response before
\* it, the first carries none, and there are no more requests than pages
CursorsThreaded ==
    /\ Len(reader.requests) <= Len(reader.pages)
    /\ \A k \in 1..Len(reader.requests) :
          reader.requests[k] = IF k = 1 THEN ""
                               ELSE reader.responses[k - 1].next_cursor
    /\ \A k \in 1..Len(reader.responses) :
          k < Len(reader.responses) => reader.responses[k].has_more

\* C31 as stated: a paginated read that has ended has yielded the results of
\* every page exactly once, in page order; cursors are threaded and the
\* requests are no more than the pages.
C31_EveryResultOnce ==
    /\ CursorsThreaded
    /\ reader.status = "done"
       => /\ reader.yielded = Flatten(reader.pages, 1)
          /\ Len(reader.requests) = Len(reader.pages)

\* C31, amended: a paginated read that has ended has made one request per
\* page of the server, the first without cursor and each later one with the
\* cursor of the response before it, has stopped at the first response that
\* reported no further page, and has yielded, exactly once and in page order,
\* every result of every page (query_database, get_block_children) or every
\* result whose object is "database" (search_databases).
C31_EveryKeptResultOnce ==
    /\ CursorsThreaded
    /\ reader.status = "done"
       => /\ reader.yielded =
                SelectSeq(Flatten(reader.pages, 1),
                          LAMBDA result : \/ reader.op # "search_databases"
                                          \/ result.object = "database")
          /\ Len(reader.requests) = Len(reader.pages)
          /\ ~reader.responses[Len(reader.responses)].has_more

\* a search over three pages has ended; the second page was empty, the others
\* held a database and another object
C31_Witness ==
    /\ reader.status = "done"
    /\ reader.op = "search_databases"
    /\ Len(reader.pages) = 3
    /\ reader.pages[2] = <<>>
    /\ Len(reader.yielded) = 2
    /\ Len(Flatten(reader.pages, 1)) = 4
    /\ reader.requests = <<"", "cursor-2", "cursor-3">>


\* the token names the owning schema: its schema id is the all-zero sentinel
Sentinel(tok) == NoHyphen(tok.db) = NoHyphen(ZERO_DB_ID)

\* the names of the properties of props whose id is the token's property id,
\* as written or unquoted
NamesFor(tok, props) ==
    {props[j].name : j \in {k \in 1..Len(props) :
                               /\ props[k].id # ""
                               /\ {props[k].id, Unquote(props[k].id)}
                                     \cap {tok.pid, Unquote(tok.pid)} # {}}}

\* the names the token may be replaced with: those of the owning schema for a
\* sentinel token, those of the dumped schemas with the token's schema id
\* (hyphens apart) for any other
NamesInScope(tok, src) ==
    IF Sentinel(tok) THEN NamesFor(tok, source_databases(src).properties)
    ELSE UNION {NamesFor(tok, records[r].database.properties) :
                   r \in {q \in 1..Len(records) :
                             NoHyphen(records[q].source_database_id) = NoHyphen(tok.db)}}

\* C32: in the expression of every formula update of an upload, a token is
\* replaced by a reference to a property of the schema it names (the owning
\* schema for the all-zero sentinel, otherwise the dumped schema with its
\* schema id, hyphens apart) and is left as it was when that schema has no
\* property with its property id or is not a schema of the dump, whatever
\* properties the other schemas, the owning one included, have.
C32_TokenResolvedInItsSchema ==
    run.command = "upload"
    => \A i \in UpdatesOf("formula") :
          LET source == SourcePropertyOf(calls[i]).expression
              out == calls[i].payload.config.expression
          IN \A k \in 1..Len(source) :
                source[k].k = "tok"
                => LET names == NamesInScope(source[k], calls[i].src)
                   IN IF names = {} THEN out[k] = source[k]
                      ELSE \E n \in names : out[k] = PropRef(EscapeQuotes(n))

\* a formula update of the second schema, whose expression keeps the token of
\* a schema outside the dump with the property id of the owner's rollup, the
\* sentinel token with the property id of a property of the other schema, and
\* the token of the other schema with the property id of the formula itself
C32_Witness ==
    /\ run.command = "upload"
    /\ \E i \in UpdatesOf("formula") :
          LET out == calls[i].payload.config.expression
          IN /\ calls[i].src = SrcB
             /\ calls[i].result = "ok"
             /\ out[2] = PropRef("Roll")
             /\ out[3] = PropRef("Tags")
             /\ out[7] = Tok("ro", ExternalDb)
             /\ out[8] = Tok("c", ZERO_DB_ID)
             /\ out[9] = Tok("f", SrcA)


\* C33: when the command before an upload was an upload that ended with a
\* fatal error, the upload makes no create_database call that succeeds for a
\* source schema for which the ended upload had made one.
C33_AbortedUploadNotRepeated ==
    (/\ run.command = "upload"
     /\ run.last.command = "upload"
     /\ ~run.last.completed
     /\ run.last.exit_code = 1)
    => \A i \in CallIdx("create_database") :
          calls[i].result = "ok"
          => \A c \in run.last.created : calls[i].src # c.src


\* the positions of an upload up to the writing of the store
BeforeSave == {"discover", "create", "save"}

CreatedInRun(r) ==
    \E j \in CallIdx("create_page") : calls[j].src = r /\ calls[j].result = "ok"

\* C35: in an upload every update_page call comes after every create_page
\* call of the run; no create_page payload holds a relation property or a
\* relation value; and every reference of a source record to a record that
\* the run created, of whichever schema, is in the update of its property as
\* the id of the created record.
C35_RelationsAfterAllRecords ==
    run.command = "upload"
    => /\ \A i \in CallIdx("update_page") : \A j \in CallIdx("create_page") : j < i
       /\ \A j \in CallIdx("create_page") :
             \A k \in 1..Len(calls[j].payload) :
                /\ calls[j].payload[k].type # "relation"
                /\ calls[j].payload[k].relation = <<>>
       /\ \A i \in CallIdx("update_page") :
             LET source_update == DeferredEntryOf(calls[i]).update
             IN \A k \in 1..Len(source_update) :
                   \A r \in Range(source_update[k].relation) :
                      CreatedInRun(r)
                      => source_to_destination_page_map[r]
                            \in Range(calls[i].payload[k].relation)

\* the update of the copy of the first record of the first schema carries the
\* copy of the record of the second schema, which was created after it
C35_Witness ==
    /\ run.command = "upload"
    /\ \E i \in CallIdx("update_page") : \E a, b \in CallIdx("create_page") :
          /\ a < b
          /\ calls[a].src = "p1" /\ calls[a].result = "ok"
          /\ calls[b].src = "q1" /\ calls[b].result = "ok"
          /\ calls[i].dest = source_to_destination_page_map["p1"]
          /\ calls[i].result = "ok"
          /\ \E k \in 1..Len(calls[i].payload) :
                source_to_destination_page_map["q1"]
                   \in Range(calls[i].payload[k].relation)


\* C36: in an upload on a dump with its store, the expression of every formula
\* update is the converted expression that the formula descriptor of that
\* property holds in the store since the dump.
C36_DescriptorIsSubmittedExpression ==
    run.command = "upload"
    => \A i \in UpdatesOf("formula") :
          \A d \in Range(DocGet(loaded, "formula_properties", <<>>)) :
             (d.source_db_id = calls[i].src /\ d.property_name = calls[i].name)
             => d.expression = calls[i].payload.config.expression


\* C37: in an upload no two entries of the schema map have the same
\* destination schema, and no destination schema gets records of two source
\* schemas.
C37_SchemaMapInjective ==
    run.command = "upload"
    => /\ OneToOne(source_to_destination_db_map)
       /\ \A i, j \in CallIdx("create_page") :
             LET SchemaOf(r) ==
                    records[CHOOSE k \in 1..Len(records) :
                               \E p \in 1..Len(records[k].pages) :
                                  records[k].pages[p].id = r].source_database_id
             IN calls[i].dest = calls[j].dest
                => SchemaOf(calls[i].src) = SchemaOf(calls[j].src)


\* C38: when an upload has completed after an upload that a fatal error ended
\* before it wrote the store, every relation, rollup and formula property
\* that the translator defers of a source schema for which the ended upload
\* had created a destination schema has been submitted to that schema.
C38_AbortedSchemaCompleted ==
    (/\ run.command = "upload"
     /\ pc = "done"
     /\ run.last.command = "upload"
     /\ run.last.exit_code = 1
     /\ DocGet(loaded, "updated_at", 0) # runs - 1)
    => \A c \in run.last.created :
          \A p \in Range(source_databases(c.src).properties) :
             IsDeferred(p, source_to_destination_db_map, TRUE)
             => [name |-> p.name, src |-> c.src, dest |-> c.dest] \in sent


\* the create_page calls made for the source record r
CreatesOf(r) == {i \in CallIdx("create_page") : calls[i].src = r}

\* C39: an upload makes at most one create_page call for a dumped record, and
\* that in the destination schema its source schema is mapped to; once the
\* record pass of an upload with data on a dump with data is over it has made
\* one for every record of every schema, the schemas it skipped included;
\* an upload without data, or on a dump without data, makes no create_page
\* and no update_page call.
C39_OneCreatePerRecord ==
    run.command = "upload"
    => /\ \A k \in 1..Len(records) : \A p \in 1..Len(records[k].pages) :
             LET made == CreatesOf(records[k].pages[p].id)
             IN /\ Cardinality(made) <= 1
                /\ \A i \in made :
                      calls[i].dest = MapGet(source_to_destination_db_map,
                                             records[k].source_database_id)
                /\ RecordPassOver => Cardinality(made) = 1
       /\ ~(include_data /\ manifest.include_data)
          => CallIdx("create_page") \cup CallIdx("update_page") = {}

\* an upload with data has ended its record pass with a record created in a
\* destination schema that the run had skipped as existing
C39_Witness ==
    /\ RecordPassOver
    /\ \E s \in SkippedInRun : \E i \in CallIdx("create_page") :
          /\ calls[i].result = "ok"
          /\ calls[i].dest = MapGet(source_to_destination_db_map, s)
          /\ calls[i].dest \in run.last.dest_ids


\* the property set built holds the translation r of the source property
\* named name: an entry of that name and of the translated type
Holds(built, name, r) ==
    \E e \in Range(built.immediate) \cup Range(built.deferred) :
       e.name = name /\ e.payload.type = r.type

\* C40: the property sets that build_database_properties returns for the
\* schema of a create_database call of an upload, of which the immediate one
\* is the payload of the call, hold every source property that the
\* translator translates, under its name and with its translated type.
C40_FallbackKeepsTranslated ==
    run.command = "upload"
    => \A i \in CallIdx("create_database") :
          LET props == source_databases(calls[i].src).properties
          IN \A k \in 1..Len(props) :
                property_schema_config(props[k], source_to_destination_db_map).ok
                => Holds([immediate |-> calls[i].payload,
                          deferred |-> build_database_properties(
                                          props, source_to_destination_db_map, TRUE,
                                          all_db_properties).deferred],
                         props[k].name,
                         property_schema_config(props[k], source_to_destination_db_map))

====
